---- MODULE Spec2Model ----
(***************************************************************************)
(* Order adapter: ingress listener -> order processor (validator,          *)
(* instrument resolver, risk processor) -> FIX gateway.                    *)
(*                                                                         *)
(* Objects are records (risk = the RiskProcessor instance, gw = the        *)
(* FixGatewayService instance, proc = the OrderProcessor statistics).      *)
(* Python dicts are functions whose DOMAIN is the set of keys present.     *)
(* Time is the UTC wall clock in milliseconds; a date is a day number.     *)
(* Raised exceptions are records [kind |-> class name, ...]; a normal      *)
(* return is Returned.  An Optional value is None or Some(v).              *)
(***************************************************************************)
EXTENDS Integers, Sequences, FiniteSets, TLC

VARIABLES
    now,        \* datetime.utcnow(), milliseconds
    advances,   \* number of clock advances so far (bounds the run)
    risk,       \* RiskProcessor: enabled, daily_volumes, daily_orders, positions,
                \* order_history, stats, last_reset_date
    last,       \* the last operation: its name, input and outcome
    tasks,      \* asyncio tasks awaiting check_order: position, order, outcome
    running,    \* the task the event loop is running: {} or {w}
    proc,       \* OrderProcessor: stats
    gw,         \* FixGatewayService: session_id, connected, pending_orders, stats
    sent,       \* the messages handed to the FIX session, oldest first
    created,    \* the messages of the tasks fromApp created, oldest first
    porder,     \* a ProcessedOrder whose methods are called, or None
    calls,      \* number of method calls on porder so far (bounds the run)
    listener,   \* OrderListenerService: stats, running, socket
    inbox,      \* the frames the ingress socket holds, oldest first
    dispatched, \* arrival numbers of the frames whose send_order returned
    accepted,   \* the orders check_order let pass: symbol, quantity, day
    starter,    \* the FixGatewayService.start() coroutine: position, outcome
    server      \* the OrderListenerService.start() coroutine: position, the
                \* frame it holds, outcome

vars == <<now, advances, risk, last, tasks, running, proc, gw, sent, created, porder, calls,
          listener, inbox, dispatched, accepted, starter, server>>
gwVars == <<gw, sent, created>>
orderVars == <<porder, calls>>
loopVars == <<tasks, running>>
svcVars == <<listener, inbox, dispatched, accepted, starter, server>>

-----------------------------------------------------------------------------
(* Bounds of the model *)

\* RiskLimits are configuration (core/config.py:43-46); the model runs with
\* small limits so that every limit is reached by a few small orders.
max_order_size == 2
max_daily_volume == 2
max_orders_per_second == 1
max_position_size == 2

MaxQty == 3            \* order quantities are 1..MaxQty
MaxChecks == 2         \* check_order calls in one run
MaxAdvances == 2       \* clock advances in one run
MaxFillQty == 1        \* update_position quantities are 1..MaxFillQty
NumTasks == 2          \* concurrent check_order tasks on the event loop
MaxRequests == 1       \* process_order calls in one run
MaxSent == 2           \* orders handed to the FIX session in one run
MaxReceived == 2       \* application messages received in one run
MaxCalls == 3          \* add_fill and update_status calls on one order
MaxFill == 2           \* largest fill quantity of one add_fill
MaxFrames == 2         \* frames arriving on the ingress socket in one run

(* Program constants, in milliseconds *)
OneSecond == 1000          \* timedelta(seconds=1)
FiveMinutes == 300000      \* timedelta(minutes=5)
Day == 86400000            \* one calendar day
HalfSecond == 500          \* the smallest clock step of the model

-----------------------------------------------------------------------------
(* Python helpers *)

\* Optional[T]: None, or Some(v) with value Val(x)
None == <<>>
Some(v) == <<v>>
Val(x) == x[1]
Returned == [kind |-> "return"]
Raise(kind, reason) == [kind |-> kind, reason |-> reason]
Raised(r) == r.kind # "return"

EmptyDict == [k \in {} |-> 0]
Get(d, k, default) == IF k \in DOMAIN d THEN d[k] ELSE default
Put(d, k, v) == [x \in (DOMAIN d) \cup {k} |-> IF x = k THEN v ELSE d[x]]
Abs(n) == IF n < 0 THEN -n ELSE n

\* datetime.date(): the calendar day of a timestamp
DateOf(t) == t \div Day

-----------------------------------------------------------------------------
(* Inputs *)

Symbols == {"SPXW", "ES"}
Sides == {"BUY", "SELL"}
\* expiry dates offered to option orders: day numbers around the model's days
ExpiryDates == {2}

\* The fields of a ProcessedOrder that the risk processor reads.
RiskOrders ==
    { [order_id |-> "T1", symbol |-> s, side |-> sd, quantity |-> q,
       expiry_date |-> e, strike_price |-> k, price |-> None]
        : s \in Symbols, sd \in Sides, q \in 1 .. MaxQty,
          e \in {None} \cup {Some(d) : d \in ExpiryDates},
          k \in {None, Some(4150000)} }

RiskOrderOK(o) ==
    IF o.symbol = "SPXW" THEN o.expiry_date # None /\ o.strike_price # None
    ELSE o.expiry_date = None /\ o.strike_price = None

-----------------------------------------------------------------------------
(* RiskProcessor, src/processors/risk_processor.py.  Every step takes the  *)
(* RiskProcessor state r and the clock t and returns [r, result].          *)

\* __init__
RiskInit(enabled, t) ==
    [enabled |-> enabled,
     daily_volumes |-> EmptyDict,
     daily_orders |-> EmptyDict,
     positions |-> EmptyDict,
     order_history |-> <<>>,
     stats |-> [total_checks |-> 0, risk_violations |-> 0, orders_blocked |-> 0,
                last_reset |-> t],
     last_reset_date |-> DateOf(t)]

_check_daily_reset_KeepsVolumes(r, t) ==
    LET current_date == DateOf(t) IN
    IF current_date > r.last_reset_date
    THEN [r EXCEPT !.daily_orders = EmptyDict,
                   !.last_reset_date = current_date,
                   !.stats.last_reset = t]
    ELSE r

_check_daily_reset(r, t) ==
    LET current_date == DateOf(t) IN
    IF current_date > r.last_reset_date
    THEN [r EXCEPT !.daily_volumes = EmptyDict,
                   !.daily_orders = EmptyDict,
                   !.last_reset_date = current_date,
                   !.stats.last_reset = t]
    ELSE r

_check_order_size(r, order) ==
    IF order.quantity > max_order_size
    THEN Raise("RiskManagementError", "size")
    ELSE Returned

_check_daily_volume_NoAccumulate(r, order) ==
    IF order.quantity > max_daily_volume
    THEN Raise("RiskManagementError", "volume")
    ELSE Returned

_check_daily_volume(r, order) ==
    LET symbol == order.symbol
        current_volume == Get(r.daily_volumes, symbol, 0)
        new_total == current_volume + order.quantity
    IN IF new_total > max_daily_volume
       THEN Raise("RiskManagementError", "volume")
       ELSE Returned

_check_position_limits_NoAbs(r, order) ==
    LET current_position == Get(r.positions, order.symbol, 0)
        quantity_delta == IF order.side = "BUY" THEN order.quantity ELSE -order.quantity
    IN IF current_position + quantity_delta > max_position_size
       THEN Raise("RiskManagementError", "position")
       ELSE Returned

_check_position_limits(r, order) ==
    LET symbol == order.symbol
        current_position == Get(r.positions, symbol, 0)
        quantity_delta == IF order.side = "BUY" THEN order.quantity ELSE -order.quantity
        new_position == current_position + quantity_delta
    IN IF Abs(new_position) > max_position_size
       THEN Raise("RiskManagementError", "position")
       ELSE Returned

\* the orders counted by the rate check at time t
RecentOrders(history, t) ==
    LET one_second_ago == t - OneSecond
        Recent(o) == o.timestamp > one_second_ago
    IN SelectSeq(history, Recent)

_check_order_rate_OffByOne(r, order, t) ==
    IF Len(RecentOrders(r.order_history, t)) > max_orders_per_second
    THEN Raise("RiskManagementError", "rate")
    ELSE Returned

_check_order_rate(r, order, t) ==
    LET recent_orders == RecentOrders(r.order_history, t)
    IN IF Len(recent_orders) >= max_orders_per_second
       THEN Raise("RiskManagementError", "rate")
       ELSE Returned

_check_spxw_risks(r, order, t) ==
    IF order.expiry_date # None /\ Val(order.expiry_date) <= DateOf(t)
    THEN Raise("RiskManagementError", "expired")
    ELSE IF order.expiry_date # None /\ Val(order.expiry_date) - DateOf(t) < 1
    THEN Raise("RiskManagementError", "expiring")
    ELSE IF order.strike_price # None /\ Val(order.strike_price) # 0
            /\ Val(order.strike_price) <= 0
    THEN Raise("RiskManagementError", "strike")
    ELSE Returned

_check_instrument_specific_risks(r, order, t) ==
    IF order.symbol = "SPXW" THEN _check_spxw_risks(r, order, t) ELSE Returned

_record_order(r, order, t) ==
    LET symbol == order.symbol
        order_record == [order_id |-> order.order_id, symbol |-> order.symbol,
                         quantity |-> order.quantity, timestamp |-> t]
        five_minutes_ago == t - FiveMinutes
        Kept(o) == o.timestamp > five_minutes_ago
    IN [r EXCEPT
          !.daily_volumes = Put(@, symbol, Get(@, symbol, 0) + order.quantity),
          !.daily_orders = Put(@, symbol, Get(@, symbol, 0) + 1),
          !.order_history = SelectSeq(Append(@, order_record), Kept)]

\* The five checks of check_order in the order the code runs them: the
\* first one that raises ends the sequence.
RiskChecks(r, order, t) ==
    LET c1 == _check_order_size(r, order)
        c2 == _check_daily_volume(r, order)
        c3 == _check_position_limits(r, order)
        c4 == _check_order_rate(r, order, t)
        c5 == _check_instrument_specific_risks(r, order, t)
    IN IF Raised(c1) THEN c1
       ELSE IF Raised(c2) THEN c2
       ELSE IF Raised(c3) THEN c3
       ELSE IF Raised(c4) THEN c4
       ELSE c5

ChecksOnly_Recording(r, order, t) ==
    LET c == RiskChecks(r, order, t)
    IN [r |-> IF Raised(c) THEN r ELSE _record_order(r, order, t), result |-> c]

\* The five checks without the record step: the state they leave and their
\* outcome.  No check assigns to a field of the RiskProcessor.
ChecksOnly(r, order, t) == [r |-> r, result |-> RiskChecks(r, order, t)]

\* the except RiskManagementError clause of check_order
RiskViolation(r) ==
    [r EXCEPT !.stats.risk_violations = @ + 1, !.stats.orders_blocked = @ + 1]

check_order_RecordFirst(r, order, t) ==
    LET r1 == [r EXCEPT !.stats.total_checks = @ + 1] IN
    IF ~r1.enabled
    THEN [r |-> r1, result |-> Returned]
    ELSE LET r2 == _record_order(_check_daily_reset(r1, t), order, t)
             c == RiskChecks(_check_daily_reset(r1, t), order, t)
         IN IF Raised(c)
            THEN [r |-> RiskViolation(r2), result |-> c]
            ELSE [r |-> r2, result |-> Returned]

check_order_IgnoresEnabled(r, order, t) ==
    LET r1 == [r EXCEPT !.stats.total_checks = @ + 1]
        r2 == _check_daily_reset(r1, t)
        c == RiskChecks(r2, order, t)
    IN IF Raised(c)
       THEN [r |-> RiskViolation(r2), result |-> c]
       ELSE [r |-> _record_order(r2, order, t), result |-> Returned]

check_order(r, order, t) ==
    LET r1 == [r EXCEPT !.stats.total_checks = @ + 1] IN
    IF ~r1.enabled
    THEN [r |-> r1, result |-> Returned]
    ELSE LET r2 == _check_daily_reset(r1, t)
             c == RiskChecks(r2, order, t)
         IN IF Raised(c)
            THEN [r |-> RiskViolation(r2), result |-> c]
            ELSE [r |-> _record_order(r2, order, t), result |-> Returned]

update_position(r, symbol, quantity, side) ==
    LET quantity_delta == IF side = "BUY" THEN quantity ELSE -quantity
    IN [r EXCEPT !.positions = Put(@, symbol, Get(@, symbol, 0) + quantity_delta)]

-----------------------------------------------------------------------------
(* OrderRequest and ProcessedOrder, src/models/order.py.  Prices are in    *)
(* thousandths; a date string is [valid, day], a time string [valid, t].   *)

\* Python's truth value of an Optional string, number, date or time string
\* (the date and time strings of the model are not empty)
TruthyStr(x) == x # None /\ Val(x) # ""
TruthyNum(x) == x # None /\ Val(x) # 0
TruthyDate(x) == x # None
\* Python's `x or y` on an Optional string x
Or(x, y) == IF TruthyStr(x) THEN Val(x) ELSE y

\* str.upper() on the strings of the model
Upper(s) ==
    CASE s = "buy" -> "BUY"
      [] s = "sell" -> "SELL"
      [] s = "limit" -> "LIMIT"
      [] s = "market" -> "MARKET"
      [] s = "day" -> "DAY"
      [] s = "call" -> "CALL"
      [] s = "put" -> "PUT"
      [] s = "spxw" -> "SPXW"
      [] OTHER -> s

DateString(day) == [valid |-> TRUE, day |-> day]
BadDateString == [valid |-> FALSE, day |-> 0]
TimeString(t) == [valid |-> TRUE, t |-> t]
BadTimeString == [valid |-> FALSE, t |-> 0]

\* OrderRequest.__init__ and __post_init__ on the decoded fields
OrderRequest(data) ==
    [data EXCEPT !.client_order_id = IF @ = None THEN Some(data.order_id) ELSE @]

\* ProcessedOrder.__init__ with the dataclass defaults, and __post_init__
ProcessedOrder(order_id, cl_ord_id, symbol, side, quantity, order_type, tif, account, price, stop_price, text, t) ==
    LET filled_quantity == 0 IN
    [order_id |-> order_id, client_order_id |-> cl_ord_id, symbol |-> symbol,
     side |-> side, quantity |-> quantity, order_type |-> order_type,
     time_in_force |-> tif, account |-> account,
     price |-> price, stop_price |-> stop_price,
     strike_price |-> None, expiry_date |-> None, option_type |-> None,
     security_id |-> None, security_id_source |-> None,
     security_type |-> "OPT", security_exchange |-> "CBOE", currency |-> "USD",
     status |-> "NEW", created_time |-> t, updated_time |-> t,
     expire_time |-> None, min_quantity |-> None, max_show |-> None, text |-> text,
     filled_quantity |-> filled_quantity,
     remaining_quantity |-> quantity - filled_quantity,
     avg_price |-> None, last_price |-> None, last_quantity |-> None,
     order_capacity |-> None, clearing_account |-> None]

OrderStatuses ==
    {"NEW", "PENDING_NEW", "PARTIALLY_FILLED", "FILLED", "PENDING_CANCEL", "CANCELED",
     "REJECTED", "EXPIRED"}

update_status(order, status, t) ==
    [order EXCEPT !.status = status, !.updated_time = t]

\* decimal.Decimal, for the values of the model (none is negative): the
\* coefficient's digits, most significant first, and the exponent; the value
\* is coeff * 10^exp.  Results are rounded as the default context does, to
\* prec significant digits, ROUND_HALF_EVEN.
prec == 28
PriceScale == 3

Zeros(k) == [i \in 1 .. k |-> 0]
Front(ds) == SubSeq(ds, 1, Len(ds) - 1)

RECURSIVE DigitsOf(_)
DigitsOf(n) == IF n < 10 THEN <<n>> ELSE DigitsOf(n \div 10) \o <<n % 10>>

RECURSIVE StripLeading(_)
StripLeading(ds) ==
    IF Len(ds) > 1 /\ ds[1] = 0 THEN StripLeading(Tail(ds)) ELSE ds

RECURSIVE MulCarry(_, _, _)
MulCarry(ds, n, carry) ==
    IF ds = <<>> THEN (IF carry = 0 THEN <<>> ELSE DigitsOf(carry))
    ELSE LET v == ds[Len(ds)] * n + carry
         IN MulCarry(Front(ds), n, v \div 10) \o <<v % 10>>

\* coefficient times a small natural number
MulDigits(ds, n) == StripLeading(MulCarry(ds, n, 0))

RECURSIVE AddCarry(_, _, _)
AddCarry(a, b, carry) ==
    IF a = <<>> THEN (IF carry = 0 THEN <<>> ELSE <<carry>>)
    ELSE LET v == a[Len(a)] + b[Len(b)] + carry
         IN AddCarry(Front(a), Front(b), v \div 10) \o <<v % 10>>

AddDigits(a, b) ==
    LET n == IF Len(a) > Len(b) THEN Len(a) ELSE Len(b)
    IN StripLeading(AddCarry(Zeros(n - Len(a)) \o a, Zeros(n - Len(b)) \o b, 0))

\* long division of a coefficient by a small natural number
RECURSIVE DivStep(_, _, _)
DivStep(ds, n, rem) ==
    IF ds = <<>> THEN [q |-> <<>>, r |-> rem]
    ELSE LET cur == rem * 10 + Head(ds)
             rest == DivStep(Tail(ds), n, cur % n)
         IN [q |-> <<cur \div n>> \o rest.q, r |-> rest.r]

DecimalOf(price) == [coeff |-> DigitsOf(price), exp |-> -PriceScale]

\* the coefficient cut to a number of significant digits, half-even
RoundTo(d, digits) ==
    IF Len(d.coeff) <= digits THEN d
    ELSE LET k == Len(d.coeff) - digits
             kept == SubSeq(d.coeff, 1, digits)
             dropped == SubSeq(d.coeff, digits + 1, Len(d.coeff))
             up == \/ dropped[1] > 5
                   \/ /\ dropped[1] = 5
                      /\ \/ \E i \in 2 .. Len(dropped) : dropped[i] # 0
                         \/ kept[digits] % 2 = 1
             c == IF up THEN AddDigits(kept, <<1>>) ELSE kept
         IN IF Len(c) > digits THEN [coeff |-> Front(c), exp |-> d.exp + k + 1]
            ELSE [coeff |-> c, exp |-> d.exp + k]

\* Decimal._fix: the result of an operation, rounded to the context's precision
DecimalRound(d) == RoundTo(d, prec)

\* Decimal * int
DecimalTimes(d, n) == DecimalRound([coeff |-> MulDigits(d.coeff, n), exp |-> d.exp])

\* Decimal + Decimal
DecimalPlus(a, b) ==
    LET e == IF a.exp < b.exp THEN a.exp ELSE b.exp
    IN DecimalRound([coeff |-> AddDigits(a.coeff \o Zeros(a.exp - e),
                                         b.coeff \o Zeros(b.exp - e)),
                     exp |-> e])

RECURSIVE StripToIdeal(_, _, _)
StripToIdeal(c, e, ideal) ==
    IF e < ideal /\ Len(c) > 1 /\ c[Len(c)] = 0 THEN StripToIdeal(Front(c), e + 1, ideal)
    ELSE [coeff |-> c, exp |-> e]

\* Decimal / int for n > 0: the quotient to prec + 1 digits, a remainder
\* kept as a sticky last digit, then rounded (a coefficient has at most prec
\* digits here, so the dividend is always shifted left)
DecimalOver(d, n) ==
    IF d.coeff = <<0>> THEN d
    ELSE LET shift == Len(DigitsOf(n)) - Len(d.coeff) + prec + 1
             dv == DivStep(d.coeff \o Zeros(shift), n, 0)
             q == StripLeading(dv.q)
             sticky == IF q[Len(q)] % 5 = 0 THEN Front(q) \o <<q[Len(q)] + 1>> ELSE q
         IN IF dv.r # 0 THEN DecimalRound([coeff |-> sticky, exp |-> d.exp - shift])
            ELSE DecimalRound(StripToIdeal(q, d.exp - shift, d.exp))

RECURSIVE StripTrailing(_, _)
StripTrailing(c, e) ==
    IF Len(c) > 1 /\ c[Len(c)] = 0 THEN StripTrailing(Front(c), e + 1)
    ELSE IF c = <<0>> THEN [coeff |-> c, exp |-> 0]
    ELSE [coeff |-> c, exp |-> e]

\* two Decimals are equal (==) iff their normal forms are the same
Normal(d) == StripTrailing(d.coeff, d.exp)

add_fill_StaleRemaining(order, fill_quantity, fill_price, t) ==
    LET o1 == [order EXCEPT !.filled_quantity = @ + fill_quantity,
                            !.last_quantity = Some(fill_quantity),
                            !.last_price = Some(fill_price)]
    IN [order |-> update_status(o1, "PARTIALLY_FILLED", t), result |-> Returned]

add_fill_LastPrice(order, fill_quantity, fill_price, t) ==
    LET o1 == [order EXCEPT !.filled_quantity = @ + fill_quantity,
                            !.remaining_quantity =
                                order.quantity - (order.filled_quantity + fill_quantity),
                            !.last_quantity = Some(fill_quantity),
                            !.last_price = Some(fill_price),
                            !.avg_price = Some(DecimalOf(fill_price))]
    IN IF o1.remaining_quantity = 0
       THEN [order |-> update_status(o1, "FILLED", t), result |-> Returned]
       ELSE [order |-> update_status(o1, "PARTIALLY_FILLED", t), result |-> Returned]

\* add_fill: returns [order, result]; the division raises on a zero
\* filled_quantity, after the quantities have been written
add_fill(order, fill_quantity, fill_price, t) ==
    LET o1 == [order EXCEPT !.filled_quantity = @ + fill_quantity,
                            !.remaining_quantity =
                                order.quantity - (order.filled_quantity + fill_quantity),
                            !.last_quantity = Some(fill_quantity),
                            !.last_price = Some(fill_price)]
        \* avg_price * (filled_quantity - fill_quantity) + fill_price * fill_quantity
        total_value ==
            DecimalPlus(DecimalTimes(Val(o1.avg_price), o1.filled_quantity - fill_quantity),
                        DecimalTimes(DecimalOf(fill_price), fill_quantity))
        o2 == IF o1.avg_price = None
              THEN [o1 EXCEPT !.avg_price = Some(DecimalOf(fill_price))]
              ELSE [o1 EXCEPT !.avg_price =
                        Some(DecimalOver(total_value, o1.filled_quantity))]
    IN IF o1.avg_price # None /\ o1.filled_quantity = 0
       THEN [order |-> o1,
             result |-> Raise(IF total_value.coeff = <<0>> THEN "InvalidOperation"
                              ELSE "DivisionByZero", "avg_price")]
       ELSE IF o2.remaining_quantity = 0
       THEN [order |-> update_status(o2, "FILLED", t), result |-> Returned]
       ELSE [order |-> update_status(o2, "PARTIALLY_FILLED", t), result |-> Returned]

is_complete(order) == order.status \in {"FILLED", "CANCELED", "REJECTED", "EXPIRED"}

-----------------------------------------------------------------------------
(* OrderValidator, src/utils/validation.py *)

max_quantity == 1000000
max_price == 999999990
min_price == 10

\* the strings of the model that match each pattern
order_id_pattern(s) == s \in {"T1", "T2", "C9"}
symbol_pattern(s) == s \in {"SPXW", "ES"}
account_pattern(s) == s \in {"A1", "USD"}

valid_sides == {"BUY", "SELL"}
valid_order_types == {"MARKET", "LIMIT", "STOP", "STOP_LIMIT"}
valid_time_in_force == {"DAY", "GTC", "IOC", "FOK", "GTD"}
valid_option_types == {"CALL", "PUT"}

Invalid(rule) == Raise("OrderValidationError", rule)

_validate_required_fields(order) ==
    IF order.order_id = "" THEN Invalid("order_id required")
    ELSE IF order.symbol = "" THEN Invalid("symbol required")
    ELSE IF order.side = "" THEN Invalid("side required")
    ELSE IF order.quantity = 0 \/ order.quantity <= 0 THEN Invalid("quantity required")
    ELSE IF order.order_type = "" THEN Invalid("order_type required")
    ELSE IF order.time_in_force = "" THEN Invalid("time_in_force required")
    ELSE Returned

_validate_formats(order) ==
    IF ~order_id_pattern(order.order_id) THEN Invalid("order_id format")
    ELSE IF ~symbol_pattern(order.symbol) THEN Invalid("symbol format")
    ELSE IF TruthyStr(order.account) /\ ~account_pattern(Val(order.account))
    THEN Invalid("account format")
    ELSE IF TruthyStr(order.client_order_id) /\ ~order_id_pattern(Val(order.client_order_id))
    THEN Invalid("client_order_id format")
    ELSE Returned

_validate_business_logic_PriceOptional(order, t) ==
    IF Upper(order.side) \notin valid_sides THEN Invalid("side")
    ELSE IF Upper(order.order_type) \notin valid_order_types THEN Invalid("order_type")
    ELSE IF Upper(order.time_in_force) \notin valid_time_in_force
    THEN Invalid("time_in_force")
    ELSE IF TruthyStr(order.option_type) /\ Upper(Val(order.option_type)) \notin valid_option_types
    THEN Invalid("option_type")
    ELSE IF /\ Upper(order.order_type) \in {"STOP", "STOP_LIMIT"}
            /\ (order.stop_price = None \/ Val(order.stop_price) <= 0)
    THEN Invalid("stop_price required")
    ELSE IF TruthyDate(order.expiry_date) /\ ~Val(order.expiry_date).valid
    THEN Invalid("expiry_date format")
    ELSE IF TruthyDate(order.expiry_date) /\ Val(order.expiry_date).day <= DateOf(t)
    THEN Invalid("expiry_date future")
    ELSE IF TruthyDate(order.expire_time) /\ ~Val(order.expire_time).valid
    THEN Invalid("expire_time format")
    ELSE IF TruthyDate(order.expire_time) /\ Val(order.expire_time).t <= t
    THEN Invalid("expire_time future")
    ELSE Returned

_validate_business_logic(order, t) ==
    IF Upper(order.side) \notin valid_sides THEN Invalid("side")
    ELSE IF Upper(order.order_type) \notin valid_order_types THEN Invalid("order_type")
    ELSE IF Upper(order.time_in_force) \notin valid_time_in_force
    THEN Invalid("time_in_force")
    ELSE IF TruthyStr(order.option_type) /\ Upper(Val(order.option_type)) \notin valid_option_types
    THEN Invalid("option_type")
    ELSE IF /\ Upper(order.order_type) \in {"LIMIT", "STOP_LIMIT"}
            /\ (order.price = None \/ Val(order.price) <= 0)
    THEN Invalid("price required")
    ELSE IF /\ Upper(order.order_type) \in {"STOP", "STOP_LIMIT"}
            /\ (order.stop_price = None \/ Val(order.stop_price) <= 0)
    THEN Invalid("stop_price required")
    ELSE IF TruthyDate(order.expiry_date) /\ ~Val(order.expiry_date).valid
    THEN Invalid("expiry_date format")
    ELSE IF TruthyDate(order.expiry_date) /\ Val(order.expiry_date).day <= DateOf(t)
    THEN Invalid("expiry_date future")
    ELSE IF TruthyDate(order.expire_time) /\ ~Val(order.expire_time).valid
    THEN Invalid("expire_time format")
    ELSE IF TruthyDate(order.expire_time) /\ Val(order.expire_time).t <= t
    THEN Invalid("expire_time future")
    ELSE Returned

_validate_ranges_QuantityUnbounded(order) ==
    IF order.price # None
       /\ (Val(order.price) < min_price \/ Val(order.price) > max_price)
    THEN Invalid("price range")
    ELSE IF order.stop_price # None
            /\ (Val(order.stop_price) < min_price \/ Val(order.stop_price) > max_price)
    THEN Invalid("stop_price range")
    ELSE IF order.strike_price # None
            /\ (Val(order.strike_price) <= 0 \/ Val(order.strike_price) > max_price)
    THEN Invalid("strike_price range")
    ELSE IF order.min_quantity # None
            /\ (Val(order.min_quantity) <= 0 \/ Val(order.min_quantity) > order.quantity)
    THEN Invalid("min_quantity")
    ELSE IF order.max_show # None
            /\ (Val(order.max_show) <= 0 \/ Val(order.max_show) > order.quantity)
    THEN Invalid("max_show")
    ELSE Returned

_validate_ranges(order) ==
    IF order.quantity > max_quantity THEN Invalid("quantity range")
    ELSE IF order.price # None
            /\ (Val(order.price) < min_price \/ Val(order.price) > max_price)
    THEN Invalid("price range")
    ELSE IF order.stop_price # None
            /\ (Val(order.stop_price) < min_price \/ Val(order.stop_price) > max_price)
    THEN Invalid("stop_price range")
    ELSE IF order.strike_price # None
            /\ (Val(order.strike_price) <= 0 \/ Val(order.strike_price) > max_price)
    THEN Invalid("strike_price range")
    ELSE IF order.min_quantity # None
            /\ (Val(order.min_quantity) <= 0 \/ Val(order.min_quantity) > order.quantity)
    THEN Invalid("min_quantity")
    ELSE IF order.max_show # None
            /\ (Val(order.max_show) <= 0 \/ Val(order.max_show) > order.quantity)
    THEN Invalid("max_show")
    ELSE Returned

validate_order_request_RangesFirst(order, t) ==
    LET v1 == _validate_required_fields(order) IN
    IF Raised(v1) THEN v1 ELSE
    LET v2 == _validate_formats(order) IN
    IF Raised(v2) THEN v2 ELSE
    LET v3 == _validate_ranges(order) IN
    IF Raised(v3) THEN v3 ELSE _validate_business_logic(order, t)

validate_order_request(order, t) ==
    LET v1 == _validate_required_fields(order) IN
    IF Raised(v1) THEN v1 ELSE
    LET v2 == _validate_formats(order) IN
    IF Raised(v2) THEN v2 ELSE
    LET v3 == _validate_business_logic(order, t) IN
    IF Raised(v3) THEN v3 ELSE _validate_ranges(order)

-----------------------------------------------------------------------------
(* SPXWInstrument, src/models/spxw_instruments.py *)

generate_security_id(expiry_date, option_type, strike_price) ==
    <<"SPXW", expiry_date, IF Upper(option_type) = "CALL" THEN "C" ELSE "P", strike_price>>

create_option(strike_price, expiry_date, option_type) ==
    [symbol |-> "SPXW", underlying_symbol |-> "SPX", strike_price |-> strike_price,
     expiry_date |-> expiry_date, option_type |-> Upper(option_type),
     currency |-> "USD", exchange |-> "CBOE", security_type |-> "OPT",
     security_id |-> generate_security_id(expiry_date, Upper(option_type), strike_price),
     security_id_source |-> "8", is_tradable |-> TRUE]

is_expired(instrument, t) == DateOf(t) > instrument.expiry_date

-----------------------------------------------------------------------------
(* OrderProcessor, src/processors/order_processor.py.  p is the            *)
(* OrderProcessor (its statistics), r its RiskProcessor.                   *)

default_currency == "USD"
default_exchange == "CBOE"

ProcInit ==
    [stats |-> [total_processed |-> 0, total_failed |-> 0, validation_failures |-> 0,
                risk_failures |-> 0, instrument_failures |-> 0]]

_validate_business_rules(order_request, t) ==
    IF order_request.symbol = "SPXW" /\ ~TruthyNum(order_request.strike_price)
    THEN Invalid("SPXW strike_price")
    ELSE IF order_request.symbol = "SPXW" /\ ~TruthyDate(order_request.expiry_date)
    THEN Invalid("SPXW expiry_date")
    ELSE IF order_request.symbol = "SPXW" /\ ~TruthyStr(order_request.option_type)
    THEN Invalid("SPXW option_type")
    ELSE IF order_request.symbol = "SPXW" /\ ~Val(order_request.expiry_date).valid
    THEN Invalid("SPXW expiry_date format")
    ELSE IF order_request.symbol = "SPXW" /\ Val(order_request.expiry_date).day <= DateOf(t)
    THEN Invalid("SPXW expiry_date future")
    ELSE IF order_request.price # None /\ Val(order_request.price) <= 0
    THEN Invalid("price positive")
    ELSE IF order_request.quantity <= 0 THEN Invalid("quantity positive")
    ELSE IF order_request.order_type \in {"LIMIT", "STOP_LIMIT"} /\ order_request.price = None
    THEN Invalid("price for order type")
    ELSE IF order_request.order_type \in {"STOP", "STOP_LIMIT"}
            /\ order_request.stop_price = None
    THEN Invalid("stop_price for order type")
    ELSE Returned

\* _validate_order: any exception of either validation is counted and
\* raised again as an OrderValidationError
_validate_order(p, order_request, t) ==
    LET v1 == validate_order_request(order_request, t)
        v == IF Raised(v1) THEN v1 ELSE _validate_business_rules(order_request, t)
    IN IF Raised(v)
       THEN [p |-> [p EXCEPT !.stats.validation_failures = @ + 1], result |-> v]
       ELSE [p |-> p, result |-> Returned]

\* _resolve_instrument: the instrument of a SPXW request, None otherwise
_resolve_instrument(p, order_request, t) ==
    IF order_request.symbol = "SPXW"
    THEN LET instrument == create_option(Val(order_request.strike_price),
                                         Val(order_request.expiry_date).day,
                                         Val(order_request.option_type))
         IN IF is_expired(instrument, t) \/ ~instrument.is_tradable
            THEN [p |-> [p EXCEPT !.stats.instrument_failures = @ + 1],
                  result |-> Raise("InstrumentError", "not tradable"),
                  instrument |-> None]
            ELSE [p |-> p, result |-> Returned, instrument |-> Some(instrument)]
    ELSE [p |-> p, result |-> Returned, instrument |-> None]

client_order_id_OrderIdOnly(order_request) == order_request.order_id

\* the client_order_id argument of _create_processed_order
client_order_id(order_request) ==
    Or(order_request.client_order_id, order_request.order_id)

_create_processed_order(order_request, instrument, t) ==
    LET base == ProcessedOrder(
                    order_request.order_id,
                    client_order_id(order_request),
                    order_request.symbol,
                    Upper(order_request.side),
                    order_request.quantity,
                    Upper(order_request.order_type),
                    Upper(order_request.time_in_force),
                    Or(order_request.account, default_currency),
                    IF TruthyNum(order_request.price) THEN order_request.price ELSE None,
                    IF TruthyNum(order_request.stop_price) THEN order_request.stop_price ELSE None,
                    order_request.text, t)
        with_instrument ==
            IF instrument # None
            THEN [base EXCEPT !.strike_price = Some(Val(instrument).strike_price),
                              !.expiry_date = Some(Val(instrument).expiry_date),
                              !.option_type = Some(Val(instrument).option_type),
                              !.security_id = Some(Val(instrument).security_id),
                              !.security_id_source = Some(Val(instrument).security_id_source),
                              !.security_type = Val(instrument).security_type,
                              !.security_exchange = Val(instrument).exchange,
                              !.currency = Val(instrument).currency]
            ELSE [base EXCEPT !.security_exchange = default_exchange,
                              !.currency = default_currency]
        with_min == IF TruthyNum(order_request.min_quantity)
                    THEN [with_instrument EXCEPT !.min_quantity = order_request.min_quantity]
                    ELSE with_instrument
        with_show == IF TruthyNum(order_request.max_show)
                     THEN [with_min EXCEPT !.max_show = order_request.max_show]
                     ELSE with_min
    IN IF TruthyDate(order_request.expire_time) /\ Val(order_request.expire_time).valid
       THEN [with_show EXCEPT !.expire_time = Some(Val(order_request.expire_time).t)]
       ELSE with_show

_enrich_order(order) ==
    LET o1 == IF ~TruthyStr(order.clearing_account)
              THEN [order EXCEPT !.clearing_account = Some(order.account)] ELSE order
    IN IF ~TruthyStr(o1.order_capacity) THEN [o1 EXCEPT !.order_capacity = Some("A")] ELSE o1

\* the except clause of process_order: whatever was raised is counted and
\* raised again as an OrderProcessingError whose message holds the cause
ProcessingFailed(p, r, cause) ==
    [p |-> [p EXCEPT !.stats.total_failed = @ + 1], r |-> r,
     result |-> [kind |-> "OrderProcessingError", cause |-> cause]]

process_order_RiskFirst(p, r, order_request, t) ==
    LET c == check_order(r, _create_processed_order(order_request, None, t), t) IN
    IF Raised(c.result) THEN ProcessingFailed(p, c.r, c.result)
    ELSE
    LET v == _validate_order(p, order_request, t) IN
    IF Raised(v.result)
    THEN ProcessingFailed(v.p, c.r, [v.result EXCEPT !.kind = "OrderValidationError"])
    ELSE
    LET i == _resolve_instrument(v.p, order_request, t) IN
    IF Raised(i.result) THEN ProcessingFailed(i.p, c.r, i.result)
    ELSE [p |-> [i.p EXCEPT !.stats.total_processed = @ + 1], r |-> c.r,
          result |-> [kind |-> "return",
                      order |-> _enrich_order(
                                    _create_processed_order(order_request, i.instrument, t))]]

process_order_SkipsValidation(p, r, order_request, t) ==
    LET i == _resolve_instrument(p, order_request, t) IN
    IF Raised(i.result) THEN ProcessingFailed(i.p, r, i.result)
    ELSE
    LET processed_order == _create_processed_order(order_request, i.instrument, t)
        c == check_order(r, processed_order, t)
    IN IF Raised(c.result) THEN ProcessingFailed(i.p, c.r, c.result)
       ELSE [p |-> [i.p EXCEPT !.stats.total_processed = @ + 1], r |-> c.r,
             result |-> [kind |-> "return", order |-> _enrich_order(processed_order)]]

process_order_OptionFieldsOptional(p, r, order_request, t) ==
    LET v == _validate_order(p, order_request, t)
        optional == {"SPXW strike_price", "SPXW expiry_date", "SPXW option_type"}
    IN
    IF Raised(v.result) /\ v.result.reason \notin optional
    THEN ProcessingFailed(v.p, r, [v.result EXCEPT !.kind = "OrderValidationError"])
    ELSE
    LET processed_order == _create_processed_order(order_request, None, t)
        c == check_order(r, processed_order, t)
    IN IF Raised(c.result) THEN ProcessingFailed(p, c.r, c.result)
       ELSE [p |-> [p EXCEPT !.stats.total_processed = @ + 1], r |-> c.r,
             result |-> [kind |-> "return", order |-> _enrich_order(processed_order)]]

process_order(p, r, order_request, t) ==
    LET v == _validate_order(p, order_request, t) IN
    IF Raised(v.result)
    THEN ProcessingFailed(v.p, r, [v.result EXCEPT !.kind = "OrderValidationError"])
    ELSE
    LET i == _resolve_instrument(v.p, order_request, t) IN
    IF Raised(i.result) THEN ProcessingFailed(i.p, r, i.result)
    ELSE
    LET processed_order == _create_processed_order(order_request, i.instrument, t)
        c == check_order(r, processed_order, t)
    IN IF Raised(c.result) THEN ProcessingFailed(i.p, c.r, c.result)
       ELSE [p |-> [i.p EXCEPT !.stats.total_processed = @ + 1], r |-> c.r,
             result |-> [kind |-> "return", order |-> _enrich_order(processed_order)]]

-----------------------------------------------------------------------------
(* The order requests of the model: two well-formed requests, and each of  *)
(* them with one field replaced.                                           *)

SPXWRequest(q) ==
    [order_id |-> "T1", symbol |-> "SPXW", side |-> "BUY", quantity |-> q,
     price |-> Some(25500), order_type |-> "LIMIT", time_in_force |-> "DAY",
     account |-> Some("A1"), strike_price |-> Some(4150000),
     expiry_date |-> Some(DateString(2)), option_type |-> Some("CALL"),
     client_order_id |-> None, stop_price |-> None, expire_time |-> None,
     min_quantity |-> None, max_show |-> None, text |-> None]

ESRequest(q) ==
    [order_id |-> "T2", symbol |-> "ES", side |-> "SELL", quantity |-> q,
     price |-> None, order_type |-> "MARKET", time_in_force |-> "GTC",
     account |-> None, strike_price |-> None, expiry_date |-> None,
     option_type |-> None, client_order_id |-> Some("C9"), stop_price |-> None,
     expire_time |-> None, min_quantity |-> None, max_show |-> None, text |-> None]

Replacements(field) ==
    CASE field = "order_id" -> {"", "T 1"}
      [] field = "symbol" -> {"", "spxw", "ES", "SPXW"}
      [] field = "side" -> {"", "buy", "SELL", "BUY", "HOLD"}
      [] field = "quantity" -> {0, -1, max_quantity, max_quantity + 1}
      [] field = "price" -> {None, Some(0), Some(-25500), Some(5), Some(max_price + 10)}
      [] field = "order_type" -> {"", "limit", "MARKET", "LIMIT", "STOP", "STOP_LIMIT", "FOO"}
      [] field = "time_in_force" -> {"", "day", "IOC", "XXX"}
      [] field = "account" -> {None, Some(""), Some("bad acct")}
      [] field = "strike_price" -> {None, Some(0), Some(-1000), Some(max_price + 10)}
      [] field = "expiry_date" ->
             {None, Some(DateString(0)), Some(DateString(1)), Some(BadDateString)}
      [] field = "option_type" -> {None, Some(""), Some("put"), Some("X")}
      [] field = "client_order_id" -> {Some(""), Some("C9"), Some("T 1")}
      [] field = "stop_price" -> {Some(24000), Some(0), Some(5)}
      [] field = "expire_time" ->
             {Some(TimeString(0)), Some(TimeString(3 * Day)), Some(BadTimeString)}
      [] field = "min_quantity" -> {Some(0), Some(1), Some(max_quantity)}
      [] field = "max_show" -> {Some(0), Some(1), Some(max_quantity)}
      [] field = "text" -> {Some("note")}

RequestFields ==
    {"order_id", "symbol", "side", "quantity", "price", "order_type", "time_in_force",
     "account", "strike_price", "expiry_date", "option_type", "client_order_id",
     "stop_price", "expire_time", "min_quantity", "max_show", "text"}

OneFieldReplaced(data) ==
    UNION {{[data EXCEPT ![f] = v] : v \in Replacements(f)} : f \in RequestFields}

WellFormedRequests == {SPXWRequest(q) : q \in 1 .. MaxQty} \cup {ESRequest(q) : q \in 1 .. MaxQty}

Requests ==
    {OrderRequest(data) :
        data \in WellFormedRequests \cup OneFieldReplaced(SPXWRequest(1))
                                   \cup OneFieldReplaced(ESRequest(1))}

-----------------------------------------------------------------------------
(* FixGatewayService, src/services/fix_gateway.py.  g is the gateway, out  *)
(* the messages handed to the FIX session, created the tasks fromApp has   *)
(* created on the event loop and that have not run yet.                    *)

GwInit ==
    [session_id |-> None, connected |-> FALSE, running |-> FALSE, initiator |-> "none",
     pending_orders |-> EmptyDict,
     stats |-> [messages_sent |-> 0, messages_received |-> 0, orders_sent |-> 0,
                execution_reports |-> 0]]

\* FixValues, src/models/fix_messages.py
NEW_ORDER_SINGLE == "D"
EXECUTION_REPORT == "8"
ORDER_CANCEL_REJECT == "9"
OPTION == "OPT"

_map_side_to_fix(side) ==
    CASE side = "BUY" -> "1" [] side = "SELL" -> "2" [] OTHER -> "1"

_map_order_type_to_fix(order_type) ==
    CASE order_type = "MARKET" -> "1" [] order_type = "LIMIT" -> "2"
      [] order_type = "STOP" -> "3" [] order_type = "STOP_LIMIT" -> "4" [] OTHER -> "2"

_map_tif_to_fix(tif) ==
    CASE tif = "DAY" -> "0" [] tif = "GTC" -> "1" [] tif = "IOC" -> "3"
      [] tif = "FOK" -> "4" [] tif = "GTD" -> "6" [] OTHER -> "0"

\* date.strftime("%Y%m%d")
MaturityDate(day) == <<"%Y%m%d", day>>

SetIf(cond, fields, tag, value) == IF cond THEN Put(fields, tag, value) ELSE fields

_create_new_order_single(order, t) ==
    LET f1 == [ClOrdID |-> order.client_order_id, Symbol |-> order.symbol,
               Side |-> _map_side_to_fix(order.side), TransactTime |-> t,
               OrdType |-> _map_order_type_to_fix(order.order_type)]
        f2 == SetIf(order.quantity # 0, f1, "OrderQty", order.quantity)
        f3 == SetIf(TruthyNum(order.price) /\ order.order_type \in {"LIMIT", "STOP_LIMIT"},
                    f2, "Price", Val(order.price))
        f4 == SetIf(TruthyNum(order.stop_price) /\ order.order_type \in {"STOP", "STOP_LIMIT"},
                    f3, "StopPx", Val(order.stop_price))
        f5 == SetIf(order.time_in_force # "", f4, "TimeInForce",
                    _map_tif_to_fix(order.time_in_force))
        f6 == SetIf(order.account # "", f5, "Account", order.account)
        opt == order.security_type = "OPT"
        f7 == SetIf(opt, f6, "SecurityType", OPTION)
        f8 == SetIf(opt /\ TruthyNum(order.strike_price), f7, "StrikePrice",
                    Val(order.strike_price))
        f9 == SetIf(opt /\ order.option_type # None, f8, "PutOrCall",
                    IF Val(order.option_type) = "CALL" THEN 1 ELSE 0)
        f10 == SetIf(opt /\ order.expiry_date # None, f9, "MaturityDate",
                     MaturityDate(Val(order.expiry_date)))
        f11 == SetIf(order.security_exchange # "", f10, "SecurityExchange",
                     order.security_exchange)
        f12 == SetIf(order.currency # "", f11, "Currency", order.currency)
        f13 == SetIf(TruthyStr(order.text), f12, "Text", Val(order.text))
        f14 == SetIf(TruthyNum(order.min_quantity), f13, "MinQty", Val(order.min_quantity))
        f15 == SetIf(TruthyNum(order.max_show), f14, "MaxShow", Val(order.max_show))
    IN [msg_type |-> NEW_ORDER_SINGLE, fields |-> f15]

\* str(x) and datetime.strftime("%Y%m%d-%H:%M:%S.%f")[:-3] of the codec
StrOf(x) == <<"str", x>>
FixTimestamp(t) == <<"%Y%m%d-%H:%M:%S.%f", t>>

\* FixMessageProcessor.create_new_order_single: the NewOrderSingle dataclass
\* filled from the order (order_restrictions is never set on a
\* ProcessedOrder and stays None)
create_new_order_single(order, t) ==
    LET opt == order.security_type = "OPT" IN
    [cl_ord_id |-> order.client_order_id,
     symbol |-> order.symbol,
     side |-> _map_side_to_fix(order.side),
     transact_time |-> t,
     ord_type |-> _map_order_type_to_fix(order.order_type),
     order_qty |-> Some(order.quantity),
     price |-> IF TruthyNum(order.price) /\ order.order_type \in {"LIMIT", "STOP_LIMIT"}
               THEN order.price ELSE None,
     stop_px |-> IF TruthyNum(order.stop_price) /\ order.order_type \in {"STOP", "STOP_LIMIT"}
                 THEN order.stop_price ELSE None,
     time_in_force |-> IF order.time_in_force # ""
                       THEN Some(_map_tif_to_fix(order.time_in_force)) ELSE None,
     account |-> IF order.account # "" THEN Some(order.account) ELSE None,
     clearing_account |-> IF TruthyStr(order.clearing_account)
                          THEN order.clearing_account ELSE None,
     ex_destination |-> None,
     security_type |-> IF opt THEN Some("OPT") ELSE None,
     strike_price |-> IF opt /\ TruthyNum(order.strike_price) THEN order.strike_price ELSE None,
     put_or_call |-> IF opt /\ order.option_type # None
                     THEN Some(IF Val(order.option_type) = "CALL" THEN 1 ELSE 0) ELSE None,
     maturity_date |-> IF opt /\ order.expiry_date # None
                       THEN Some(MaturityDate(Val(order.expiry_date))) ELSE None,
     security_exchange |-> IF order.security_exchange # ""
                           THEN Some(order.security_exchange) ELSE None,
     currency |-> IF order.currency # "" THEN Some(order.currency) ELSE None,
     security_id |-> IF TruthyStr(order.security_id) THEN order.security_id ELSE None,
     security_id_source |-> IF TruthyStr(order.security_id_source)
                            THEN order.security_id_source ELSE None,
     text |-> IF TruthyStr(order.text) THEN order.text ELSE None,
     min_qty |-> IF TruthyNum(order.min_quantity) THEN order.min_quantity ELSE None,
     max_show |-> IF TruthyNum(order.max_show) THEN order.max_show ELSE None,
     expire_time |-> order.expire_time,
     order_capacity |-> IF TruthyStr(order.order_capacity) THEN order.order_capacity ELSE None,
     order_restrictions |-> None]

\* NewOrderSingle.to_fix_fields: the attributes that are not None, by tag
to_fix_fields(nos) ==
    LET optional ==
            <<[tag |-> 38, value |-> nos.order_qty],
              [tag |-> 44, value |-> IF nos.price = None THEN None ELSE Some(StrOf(Val(nos.price)))],
              [tag |-> 99, value |-> IF nos.stop_px = None THEN None
                                     ELSE Some(StrOf(Val(nos.stop_px)))],
              [tag |-> 59, value |-> nos.time_in_force],
              [tag |-> 167, value |-> nos.security_type],
              [tag |-> 541, value |-> nos.maturity_date],
              [tag |-> 202, value |-> IF nos.strike_price = None THEN None
                                      ELSE Some(StrOf(Val(nos.strike_price)))],
              [tag |-> 201, value |-> nos.put_or_call],
              [tag |-> 1, value |-> nos.account],
              [tag |-> 440, value |-> nos.clearing_account],
              [tag |-> 100, value |-> nos.ex_destination],
              [tag |-> 15, value |-> nos.currency],
              [tag |-> 207, value |-> nos.security_exchange],
              [tag |-> 48, value |-> nos.security_id],
              [tag |-> 22, value |-> nos.security_id_source],
              [tag |-> 58, value |-> nos.text],
              [tag |-> 126, value |-> IF nos.expire_time = None THEN None
                                      ELSE Some(FixTimestamp(Val(nos.expire_time)))],
              [tag |-> 110, value |-> nos.min_qty],
              [tag |-> 210, value |-> nos.max_show],
              [tag |-> 528, value |-> nos.order_capacity],
              [tag |-> 529, value |-> nos.order_restrictions]>>
        required == [tag \in {11, 55, 54, 60, 40} |->
                        CASE tag = 11 -> nos.cl_ord_id
                          [] tag = 55 -> nos.symbol
                          [] tag = 54 -> nos.side
                          [] tag = 60 -> FixTimestamp(nos.transact_time)
                          [] tag = 40 -> nos.ord_type]
        present == {i \in DOMAIN optional : optional[i].value # None}
    IN [tag \in DOMAIN required \cup {optional[i].tag : i \in present} |->
            IF tag \in DOMAIN required THEN required[tag]
            ELSE Val(optional[CHOOSE i \in present : optional[i].tag = tag].value)]

\* the tag of a quickfix field class
TagOf(field) ==
    CASE field = "Account" -> 1
      [] field = "ClOrdID" -> 11
      [] field = "Currency" -> 15
      [] field = "OrderQty" -> 38
      [] field = "OrdType" -> 40
      [] field = "Price" -> 44
      [] field = "Side" -> 54
      [] field = "Symbol" -> 55
      [] field = "Text" -> 58
      [] field = "TimeInForce" -> 59
      [] field = "TransactTime" -> 60
      [] field = "StopPx" -> 99
      [] field = "MinQty" -> 110
      [] field = "SecurityType" -> 167
      [] field = "PutOrCall" -> 201
      [] field = "StrikePrice" -> 202
      [] field = "SecurityExchange" -> 207
      [] field = "MaxShow" -> 210
      [] field = "MaturityDate" -> 541

\* the tags of the body of a message _create_new_order_single built
TagsOf(fix_message) == {TagOf(field) : field \in DOMAIN fix_message.fields}

\* what fix.Session.sendToTarget can do with a message
SendOutcomes == {"sent", "SessionNotFound"}

\* the except clause of send_order: whatever was raised is raised again as an
\* OrderProcessingError whose message holds the cause
SendFailed(g, out, cause) ==
    [g |-> g, sent |-> out, result |-> [kind |-> "OrderProcessingError", cause |-> cause]]

send_order_KeyedByOrderId(g, out, order, t, outcome) ==
    IF ~g.connected
    THEN SendFailed(g, out, Raise("FixConnectionError", "FIX session not connected"))
    ELSE
    LET fix_message == _create_new_order_single(order, t)
        g1 == [g EXCEPT !.pending_orders = Put(@, order.order_id, order)]
    IN IF g1.session_id # None
       THEN IF outcome = "sent"
            THEN [g |-> [g1 EXCEPT !.stats.messages_sent = @ + 1,
                                   !.stats.orders_sent = @ + 1],
                  sent |-> Append(out, fix_message), result |-> Returned]
            ELSE SendFailed(g1, out, Raise("SessionNotFound", "sendToTarget"))
       ELSE SendFailed(g1, out, Raise("FixConnectionError", "No active FIX session"))

send_order(g, out, order, t, outcome) ==
    IF ~g.connected
    THEN SendFailed(g, out, Raise("FixConnectionError", "FIX session not connected"))
    ELSE
    LET fix_message == _create_new_order_single(order, t)
        g1 == [g EXCEPT !.pending_orders = Put(@, order.client_order_id, order)]
    IN IF g1.session_id # None
       THEN IF outcome = "sent"
            THEN [g |-> [g1 EXCEPT !.stats.messages_sent = @ + 1,
                                   !.stats.orders_sent = @ + 1],
                  sent |-> Append(out, fix_message), result |-> Returned]
            ELSE SendFailed(g1, out, Raise("SessionNotFound", "sendToTarget"))
       ELSE SendFailed(g1, out, Raise("FixConnectionError", "No active FIX session"))

\* initialize(): the SocketInitiator is created, or its creation raises
initialize(g, created_ok) ==
    IF created_ok
    THEN [g |-> [g EXCEPT !.initiator = "created"], result |-> Returned]
    ELSE [g |-> g, result |-> Raise("FixConnectionError", "Failed to initialize FIX gateway")]

\* _wait_for_connection's timeout and the time it sleeps between two looks
\* at self.connected, in milliseconds
logon_timeout == 30000
poll_interval == 100

\* the except clause of start(): whatever was raised is raised again as a
\* FixConnectionError
StartFailed(g, st, cause) ==
    [g |-> g,
     starter |-> [st EXCEPT !.pc = "failed",
                            !.result = [kind |-> "FixConnectionError", cause |-> cause]]]

\* start() up to its first await: the initiator is started (or raises) and
\* _wait_for_connection reads the loop's clock
start(g, st, t, initiator_starts) ==
    IF g.initiator = "none"
    THEN StartFailed(g, st, Raise("FixConnectionError", "FIX gateway not initialized"))
    ELSE IF ~initiator_starts THEN StartFailed(g, st, Raise("RuntimeError", "initiator.start"))
    ELSE [g |-> [g EXCEPT !.initiator = "started", !.running = TRUE],
          starter |-> [st EXCEPT !.pc = "waiting", !.start_time = t]]

_wait_for_connection_NoError(g, st, t, slept) ==
    IF ~g.connected /\ (t - st.start_time) < logon_timeout
    THEN [g |-> g, starter |-> st, t |-> t + slept]
    ELSE [g |-> g, starter |-> [st EXCEPT !.pc = "started"], t |-> t]

\* one turn of _wait_for_connection's loop: the condition is evaluated and
\* the coroutine sleeps, or the loop ends and start() returns or raises
_wait_for_connection(g, st, t, slept) ==
    IF ~g.connected /\ (t - st.start_time) < logon_timeout
    THEN [g |-> g, starter |-> st, t |-> t + slept]
    ELSE IF ~g.connected
    THEN LET f == StartFailed(g, st, Raise("FixConnectionError", "FIX connection timeout"))
         IN [g |-> f.g, starter |-> f.starter, t |-> t]
    ELSE [g |-> g, starter |-> [st EXCEPT !.pc = "started"], t |-> t]

\* stop()
stop(g) ==
    [g EXCEPT !.running = FALSE,
              !.initiator = IF @ = "none" THEN @ ELSE "stopped",
              !.connected = FALSE]

onCreate(g, sessionID) == [g EXCEPT !.session_id = Some(sessionID)]
onLogon(g, sessionID) == [g EXCEPT !.connected = TRUE]
onLogout(g, sessionID) == [g EXCEPT !.connected = FALSE]

fromApp_NewestFirst(g, tasksCreated, message, in_event_loop) ==
    [g |-> [g EXCEPT !.stats.messages_received = @ + 1],
     created |-> IF in_event_loop THEN <<message>> \o tasksCreated ELSE tasksCreated]

\* fromApp: asyncio.create_task creates the task when called in the running
\* event loop, and raises a RuntimeError, which fromApp logs, when not
fromApp(g, tasksCreated, message, in_event_loop) ==
    [g |-> [g EXCEPT !.stats.messages_received = @ + 1],
     created |-> IF in_event_loop THEN Append(tasksCreated, message) ELSE tasksCreated]

_process_execution_report_DropsOnUnknown(g, message) ==
    LET g1 == [g EXCEPT !.stats.execution_reports = @ + 1] IN
    IF ~({"ClOrdID", "ExecType", "OrdStatus"} \subseteq DOMAIN message.fields) THEN g1
    ELSE IF message.fields["ClOrdID"] \in DOMAIN g1.pending_orders THEN g1
         ELSE [g1 EXCEPT !.pending_orders = EmptyDict]

\* message.getField raises FieldNotFound, which is logged, on a missing field
_process_execution_report(g, message) ==
    LET g1 == [g EXCEPT !.stats.execution_reports = @ + 1] IN
    IF ~({"ClOrdID", "ExecType", "OrdStatus"} \subseteq DOMAIN message.fields) THEN g1
    ELSE LET cl_ord_id == message.fields["ClOrdID"] IN
         IF cl_ord_id \in DOMAIN g1.pending_orders
         THEN LET order == g1.pending_orders[cl_ord_id] IN g1
         ELSE g1

_process_cancel_reject_RejectsOrder(g, message) ==
    IF message.fields["ClOrdID"] \in DOMAIN g.pending_orders
    THEN [g EXCEPT !.pending_orders[message.fields["ClOrdID"]].status = "REJECTED"]
    ELSE g

_process_cancel_reject(g, message) == g

_process_app_message(g, message) ==
    IF message.msg_type = EXECUTION_REPORT THEN _process_execution_report(g, message)
    ELSE IF message.msg_type = ORDER_CANCEL_REJECT THEN _process_cancel_reject(g, message)
    ELSE g

-----------------------------------------------------------------------------
(* OrderListenerService, src/services/order_listener.py.  l is the         *)
(* listener.  A frame is the text the socket received: [json, members],    *)
(* json telling what json.loads makes of the text and members the members  *)
(* of the decoded object.                                                  *)

ListenerInit ==
    [stats |-> [orders_received |-> 0, orders_processed |-> 0, orders_failed |-> 0,
                last_order_time |-> None],
     running |-> FALSE, socket |-> "None"]

Frame(json, members) == [json |-> json, members |-> members]

\* json.loads: the text is no JSON document, is nested deeper than the
\* interpreter's recursion limit, or decodes to a list or to a dict
json_loads(message) ==
    CASE message.json = "invalid" -> Raise("JSONDecodeError", "Expecting value")
      [] message.json = "too_deep" -> Raise("RecursionError", "maximum recursion depth exceeded")
      [] OTHER -> Returned

\* the fields of the OrderRequest dataclass: those without a default, and all
RequiredFields == {"order_id", "symbol", "side", "quantity"}
DataclassFields == RequestFields \cup {"timestamp", "source", "extra_fields"}

DefaultOf(field) ==
    CASE field = "order_type" -> "LIMIT"
      [] field = "time_in_force" -> "DAY"
      [] OTHER -> None

\* OrderRequest(**order_data): the TypeError of a call with something that is
\* no mapping, without a required argument or with an unknown keyword
OrderRequestError(message) ==
    IF message.json # "object" THEN Raise("TypeError", "argument after ** must be a mapping")
    ELSE IF ~(RequiredFields \subseteq DOMAIN message.members)
    THEN Raise("TypeError", "missing required positional argument")
    ELSE IF ~(DOMAIN message.members \subseteq DataclassFields)
    THEN Raise("TypeError", "unexpected keyword argument")
    ELSE Returned

\* the fields OrderRequest(**order_data) is constructed with
WithDefaults(members) ==
    [f \in RequestFields |-> IF f \in DOMAIN members THEN members[f] ELSE DefaultOf(f)]

\* the exception classes `except Exception` catches: every class of the
\* model but those derived from BaseException alone
BaseExceptions == {"CancelledError", "KeyboardInterrupt", "SystemExit"}
IsException(e) == Raised(e) /\ e.kind \notin BaseExceptions

Outcome(l, p, r, g, out, result, error) ==
    [l |-> l, p |-> p, r |-> r, g |-> g, sent |-> out, result |-> result, error |-> error]

\* an except clause of _process_message: the error is logged and counted
CountFailed(l) == [l EXCEPT !.stats.orders_failed = @ + 1]

\* the rest of the try block once send_order has ended as s
AfterSendOrder_RollsBack(l1, po, s, t) ==
    IF Raised(s.result)
    THEN Outcome(l1, po.p,
                 IF po.r.enabled
                 THEN [po.r EXCEPT
                         !.daily_volumes = Put(@, po.result.order.symbol,
                                               Get(@, po.result.order.symbol, 0)
                                                   - po.result.order.quantity),
                         !.daily_orders = Put(@, po.result.order.symbol,
                                              Get(@, po.result.order.symbol, 0) - 1)]
                 ELSE po.r,
                 s.g, s.sent, s.result, s.result)
    ELSE Outcome([l1 EXCEPT !.stats.orders_processed = @ + 1,
                            !.stats.last_order_time = Some(t)],
                 po.p, po.r, s.g, s.sent, Returned, Returned)

AfterSendOrder(l1, po, s, t) ==
    IF Raised(s.result)
    THEN Outcome(l1, po.p, po.r, s.g, s.sent, s.result, s.result)
    ELSE Outcome([l1 EXCEPT !.stats.orders_processed = @ + 1,
                            !.stats.last_order_time = Some(t)],
                 po.p, po.r, s.g, s.sent, Returned, Returned)

\* the rest of the try block once process_order has ended as po
AfterProcessOrder(l1, g, out, po, t, outcome) ==
    IF Raised(po.result)
    THEN Outcome(l1, po.p, po.r, g, out, po.result, po.result)
    ELSE AfterSendOrder(l1, po, send_order(g, out, po.result.order, t, outcome), t)

\* the try block of _process_message, up to the first exception that one of
\* the two inner except clauses does not catch (result is what propagates)
ProcessMessageBody(l, p, r, g, out, message, t, outcome) ==
    LET l1 == [l EXCEPT !.stats.orders_received = @ + 1]
        decoded == json_loads(message)
    IN IF Raised(decoded)
       THEN IF decoded.kind = "JSONDecodeError"
            THEN Outcome(CountFailed(l1), p, r, g, out, Returned, decoded)
            ELSE Outcome(l1, p, r, g, out, decoded, decoded)
       ELSE
       LET made == OrderRequestError(message) IN
       IF IsException(made)
       THEN Outcome(CountFailed(l1), p, r, g, out, Returned, made)
       ELSE AfterProcessOrder(
                l1, g, out,
                process_order(p, r, OrderRequest(WithDefaults(message.members)), t),
                t, outcome)

OuterExcept_Always(body) ==
    IF Raised(body.error)
    THEN [body EXCEPT !.l = CountFailed(body.l), !.result = Returned]
    ELSE body

\* the two outer except clauses of _process_message (OrderProcessingError,
\* then Exception) on what the try block left
OuterExcept(body) ==
    IF ~Raised(body.result) THEN body
    ELSE IF body.result.kind = "OrderProcessingError"
    THEN [body EXCEPT !.l = CountFailed(body.l), !.result = Returned]
    ELSE IF IsException(body.result)
    THEN [body EXCEPT !.l = CountFailed(body.l), !.result = Returned]
    ELSE body

_process_message_CountsTwice(l, p, r, g, out, message, t, outcome) ==
    OuterExcept_Always(ProcessMessageBody(l, p, r, g, out, message, t, outcome))

\* _process_message: the try block, then the outer except clauses
_process_message(l, p, r, g, out, message, t, outcome) ==
    OuterExcept(ProcessMessageBody(l, p, r, g, out, message, t, outcome))

\* socket.recv_string on a socket that holds frames: the oldest frame
recv_string_Newest(frames) ==
    [message |-> frames[Len(frames)], rest |-> SubSeq(frames, 1, Len(frames) - 1)]

recv_string(frames) == [message |-> Head(frames), rest |-> Tail(frames)]

-----------------------------------------------------------------------------
(* The risk processor driven by one caller, as the listener's message loop *)
(* drives it: each check_order call runs to completion before the next.    *)

NoOp == [op |-> "none"]
NoTasks == tasks = <<>> /\ running = {}
NoGateway == gw = GwInit /\ sent = <<>> /\ created = <<>>
NoOrder == porder = None /\ calls = 0
StarterInit == [pc |-> "idle", start_time |-> 0, result |-> Returned]
ServerInit == [pc |-> "idle", message |-> None, result |-> Returned]
NoService ==
    /\ listener = ListenerInit /\ inbox = <<>> /\ dispatched = <<>> /\ accepted = <<>>
    /\ starter = StarterInit
    /\ server = ServerInit

\* the listener once start() has bound the socket and entered _message_loop
ServiceStarted ==
    /\ listener = [ListenerInit EXCEPT !.running = TRUE, !.socket = "bound"]
    /\ inbox = <<>> /\ dispatched = <<>> /\ accepted = <<>>
    /\ starter = StarterInit
    /\ server = [ServerInit EXCEPT !.pc = "while"]

\* the processor is constructed a second and a half before midnight (UTC):
\* two orders a full second apart fall on one day, and a third half-second
\* step crosses the date line
StartTime == Day - OneSecond - HalfSecond

Init ==
    /\ now = StartTime
    /\ NoService
    /\ advances = 0
    /\ \E enabled \in BOOLEAN : risk = RiskInit(enabled, now)
    /\ last = NoOp
    /\ NoTasks
    /\ proc = ProcInit
    /\ NoGateway
    /\ NoOrder

\* the clock moves on by half a second or by a day
ClockSteps == {HalfSecond, Day}

AdvanceClock ==
    /\ advances < MaxAdvances
    /\ \E d \in ClockSteps : now' = now + d
    /\ advances' = advances + 1
    /\ UNCHANGED <<risk, last, loopVars, proc, gwVars, orderVars, svcVars>>

CheckOrder ==
    /\ risk.stats.total_checks < MaxChecks
    /\ \E order \in RiskOrders :
         /\ RiskOrderOK(order)
         /\ LET c == check_order(risk, order, now)
            IN /\ risk' = c.r
               /\ last' = [op |-> "check_order", order |-> order, result |-> c.result]
    /\ UNCHANGED <<now, advances, loopVars, proc, gwVars, orderVars, svcVars>>

UpdatePosition ==
    /\ \E symbol \in Symbols, quantity \in 1 .. MaxFillQty, side \in Sides :
         /\ risk.positions = EmptyDict
         /\ risk' = update_position(risk, symbol, quantity, side)
         /\ last' = [op |-> "update_position"]
    /\ UNCHANGED <<now, advances, loopVars, proc, gwVars, orderVars, svcVars>>

Next == AdvanceClock \/ CheckOrder \/ UpdatePosition

Spec == Init /\ [][Next]_vars

-----------------------------------------------------------------------------
(* Several check_order calls in flight on one asyncio event loop.  Each    *)
(* task runs `await risk.check_order(order)`; a step is one statement of   *)
(* check_order.  The loop runs one task at a time and switches tasks only  *)
(* where the running task suspends or ends.                                *)

Tasks == 1 .. NumTasks

\* the statements of check_order between its entry and its end
InCheckOrder == {"reset", "size", "volume", "position", "rate", "instrument", "record"}

Suspends_BeforeRecord(pc) == pc = "instrument"

\* Does the await at statement pc suspend the task?  Every await of
\* check_order awaits a coroutine of RiskProcessor that itself awaits
\* nothing, so control never returns to the event loop inside check_order.
Suspends(pc) == FALSE

\* the outcome of one check: the task goes on to `next`, or the except
\* clause counts the violation and the call ends with the error
AfterCheck(r, task, c, next) ==
    IF Raised(c)
    THEN [r |-> RiskViolation(r), task |-> [task EXCEPT !.pc = "done", !.result = c]]
    ELSE [r |-> r, task |-> [task EXCEPT !.pc = next]]

\* one statement of check_order, run by `task` on RiskProcessor state r
TaskStep(r, task, t) ==
    LET order == task.order IN
    CASE task.pc = "pending" ->
           LET r1 == [r EXCEPT !.stats.total_checks = @ + 1] IN
           IF ~r1.enabled
           THEN [r |-> r1, task |-> [task EXCEPT !.pc = "done", !.result = Returned]]
           ELSE [r |-> r1, task |-> [task EXCEPT !.pc = "reset"]]
      [] task.pc = "reset" ->
           [r |-> _check_daily_reset(r, t), task |-> [task EXCEPT !.pc = "size"]]
      [] task.pc = "size" ->
           AfterCheck(r, task, _check_order_size(r, order), "volume")
      [] task.pc = "volume" ->
           AfterCheck(r, task, _check_daily_volume(r, order), "position")
      [] task.pc = "position" ->
           AfterCheck(r, task, _check_position_limits(r, order), "rate")
      [] task.pc = "rate" ->
           AfterCheck(r, task, _check_order_rate(r, order, t), "instrument")
      [] task.pc = "instrument" ->
           AfterCheck(r, task, _check_instrument_specific_risks(r, order, t), "record")
      [] task.pc = "record" ->
           [r |-> _record_order(r, order, t),
            task |-> [task EXCEPT !.pc = "done", !.result = Returned]]

InitLoop ==
    /\ now = StartTime
    /\ NoService
    /\ advances = 0
    /\ \E enabled \in BOOLEAN : risk = RiskInit(enabled, now)
    /\ last = NoOp
    /\ tasks \in [Tasks -> {[pc |-> "pending", order |-> o, result |-> Returned] :
                               o \in {x \in RiskOrders : RiskOrderOK(x)}}]
    /\ running = {}
    /\ proc = ProcInit
    /\ NoGateway
    /\ NoOrder

\* the event loop runs the next statement of the running task, or of any
\* unfinished task when none is running
RunTask ==
    \E w \in Tasks :
        /\ tasks[w].pc # "done"
        /\ running \subseteq {w}
        /\ LET s == TaskStep(risk, tasks[w], now)
           IN /\ risk' = s.r
              /\ tasks' = [tasks EXCEPT ![w] = s.task]
              /\ running' = IF s.task.pc = "done" \/ Suspends(tasks[w].pc)
                            THEN {} ELSE {w}
        /\ UNCHANGED <<now, advances, last, proc, gwVars, orderVars, svcVars>>

NextLoop == RunTask

SpecLoop == InitLoop /\ [][NextLoop]_vars

-----------------------------------------------------------------------------
(* The order processor driven by one caller *)

InitProc ==
    /\ now = StartTime
    /\ NoService
    /\ advances = 0
    /\ \E enabled \in BOOLEAN : risk = RiskInit(enabled, now)
    /\ proc = ProcInit
    /\ NoGateway
    /\ NoOrder
    /\ last = NoOp
    /\ NoTasks

ProcessOrder ==
    /\ proc.stats.total_processed + proc.stats.total_failed < MaxRequests
    /\ \E order_request \in Requests :
         LET res == process_order(proc, risk, order_request, now)
         IN /\ proc' = res.p
            /\ risk' = res.r
            /\ last' = [op |-> "process_order", request |-> order_request,
                        result |-> res.result]
    /\ UNCHANGED <<now, advances, loopVars, gwVars, orderVars, svcVars>>

NextProc == AdvanceClock \/ ProcessOrder

SpecProc == InitProc /\ [][NextProc]_vars

-----------------------------------------------------------------------------
(* The gateway driven by the FIX engine's callbacks and by send_order, at  *)
(* one clock value: the gateway reads the clock only to stamp TransactTime. *)

\* the orders the order processor hands on for two well-formed requests
ProcessedOrders(t) ==
    {_enrich_order(_create_processed_order(
         OrderRequest(data), _resolve_instrument(ProcInit, OrderRequest(data), t).instrument, t))
       : data \in {SPXWRequest(1), ESRequest(MaxQty)}}

Report(cl_ord_id, exec_type, ord_status, cum_qty, last_qty) ==
    [msg_type |-> EXECUTION_REPORT,
     fields |-> [ClOrdID |-> cl_ord_id, ExecType |-> exec_type, OrdStatus |-> ord_status,
                 CumQty |-> cum_qty, LastQty |-> last_qty]]

\* a message as the session delivers it: with the MsgSeqNum of its header
Delivered(message, seq) ==
    [msg_type |-> message.msg_type, fields |-> message.fields, seq |-> seq]

AppMessages ==
    {Report(c, "1", "1", 1, 1) : c \in {"T1", "X9"}}
    \cup {Report("C9", "4", "4", 0, 0)}
    \cup {[msg_type |-> EXECUTION_REPORT, fields |-> [ClOrdID |-> "T1"]],
          [msg_type |-> ORDER_CANCEL_REJECT,
           fields |-> [ClOrdID |-> "T1", CxlRejReason |-> "1"]],
          [msg_type |-> "3", fields |-> [Text |-> "reject"]]}

InitGw ==
    /\ now = StartTime
    /\ NoService
    /\ advances = 0
    /\ risk = RiskInit(TRUE, now)
    /\ proc = ProcInit
    /\ last = NoOp
    /\ NoTasks
    /\ NoGateway
    /\ NoOrder

OnCreate ==
    /\ gw.session_id = None
    /\ gw' = onCreate(gw, "S1")
    /\ last' = [op |-> "onCreate"]
    /\ UNCHANGED <<now, advances, risk, proc, loopVars, sent, created, orderVars, svcVars>>

OnLogon ==
    /\ gw.session_id # None
    /\ ~gw.connected
    /\ gw' = onLogon(gw, Val(gw.session_id))
    /\ last' = [op |-> "onLogon"]
    /\ UNCHANGED <<now, advances, risk, proc, loopVars, sent, created, orderVars, svcVars>>

OnLogout ==
    /\ gw.connected
    /\ gw' = onLogout(gw, Val(gw.session_id))
    /\ last' = [op |-> "onLogout"]
    /\ UNCHANGED <<now, advances, risk, proc, loopVars, sent, created, orderVars, svcVars>>

SendOrder ==
    /\ gw.stats.orders_sent < MaxSent
    /\ \E order \in ProcessedOrders(now), outcome \in SendOutcomes :
         LET s == send_order(gw, sent, order, now, outcome)
         IN /\ gw' = s.g
            /\ sent' = s.sent
            /\ last' = [op |-> "send_order", order |-> order, result |-> s.result]
    /\ UNCHANGED <<now, advances, risk, proc, loopVars, created, orderVars, svcVars>>

FromApp ==
    /\ gw.connected
    /\ gw.stats.messages_received < MaxReceived
    /\ \E message \in AppMessages, in_event_loop \in BOOLEAN :
         LET f == fromApp(gw, created, Delivered(message, gw.stats.messages_received + 1),
                          in_event_loop)
         IN /\ gw' = f.g
            /\ created' = f.created
            /\ last' = [op |-> "fromApp", message |-> message]
    /\ UNCHANGED <<now, advances, risk, proc, loopVars, sent, orderVars, svcVars>>

\* the event loop runs the oldest task fromApp created
ProcessAppMessage ==
    /\ created # <<>>
    /\ gw' = _process_app_message(gw, Head(created))
    /\ created' = Tail(created)
    /\ last' = [op |-> "_process_app_message", message |-> Head(created)]
    /\ UNCHANGED <<now, advances, risk, proc, loopVars, sent, orderVars, svcVars>>

NextGw ==
    \/ OnCreate
    \/ OnLogon
    \/ OnLogout
    \/ SendOrder
    \/ FromApp
    \/ ProcessAppMessage

SpecGw == InitGw /\ [][NextGw]_vars

-----------------------------------------------------------------------------
(* The gateway's coroutines on the event loop, one statement a step: the   *)
(* listener's task inside send_order, and the _process_app_message tasks   *)
(* fromApp created.  The loop runs one task at a time and switches tasks   *)
(* only where the running task suspends or ends.  The FIX engine calls     *)
(* onCreate, onLogon, onLogout and fromApp from its own thread, at any     *)
(* point of a task.                                                        *)

IdleTask == [pc |-> "idle"]

\* the statements of send_order and of _process_app_message with the two
\* handlers it awaits
InSendOrder == {"connected", "create", "store", "session", "send", "count"}
InAppMessage == {"msg_type", "count", "fields", "lookup", "reject_fields"}

GatewaySuspends_AtSend(pc) == pc = "send"

\* Does the statement at pc suspend the task?  send_order awaits nothing
\* (sendToTarget is a plain call), and _process_app_message awaits only
\* _process_execution_report and _process_cancel_reject, which await nothing.
GatewaySuspends(pc) == FALSE

\* the except clause of send_order ends the call
SendOrderRaised(g, out, cause) ==
    [g |-> g, sent |-> out, task |-> IdleTask,
     result |-> [kind |-> "OrderProcessingError", cause |-> cause]]

\* one statement of send_order
SendOrderStep(g, out, task, t, outcome) ==
    CASE task.pc = "connected" ->
           IF ~g.connected
           THEN SendOrderRaised(g, out, Raise("FixConnectionError", "FIX session not connected"))
           ELSE [g |-> g, sent |-> out, task |-> [task EXCEPT !.pc = "create"],
                 result |-> Returned]
      [] task.pc = "create" ->
           [g |-> g, sent |-> out,
            task |-> [pc |-> "store", order |-> task.order,
                      fix_message |-> _create_new_order_single(task.order, t)],
            result |-> Returned]
      [] task.pc = "store" ->
           [g |-> [g EXCEPT !.pending_orders = Put(@, task.order.client_order_id, task.order)],
            sent |-> out, task |-> [task EXCEPT !.pc = "session"], result |-> Returned]
      [] task.pc = "session" ->
           IF g.session_id # None
           THEN [g |-> g, sent |-> out, task |-> [task EXCEPT !.pc = "send"],
                 result |-> Returned]
           ELSE SendOrderRaised(g, out, Raise("FixConnectionError", "No active FIX session"))
      [] task.pc = "send" ->
           IF outcome = "sent"
           THEN [g |-> g, sent |-> Append(out, task.fix_message),
                 task |-> [task EXCEPT !.pc = "count"], result |-> Returned]
           ELSE SendOrderRaised(g, out, Raise("SessionNotFound", "sendToTarget"))
      [] task.pc = "count" ->
           [g |-> [g EXCEPT !.stats.messages_sent = @ + 1, !.stats.orders_sent = @ + 1],
            sent |-> out, task |-> IdleTask, result |-> Returned]

\* one statement of _process_app_message, _process_execution_report or
\* _process_cancel_reject
AppMessageStep(g, task) ==
    LET message == task.message IN
    CASE task.pc = "msg_type" ->
           [g |-> g,
            task |-> IF message.msg_type = EXECUTION_REPORT THEN [task EXCEPT !.pc = "count"]
                     ELSE IF message.msg_type = ORDER_CANCEL_REJECT
                     THEN [task EXCEPT !.pc = "reject_fields"]
                     ELSE IdleTask]
      [] task.pc = "count" ->
           [g |-> [g EXCEPT !.stats.execution_reports = @ + 1],
            task |-> [task EXCEPT !.pc = "fields"]]
      [] task.pc = "fields" ->
           [g |-> g,
            task |-> IF {"ClOrdID", "ExecType", "OrdStatus"} \subseteq DOMAIN message.fields
                     THEN [task EXCEPT !.pc = "lookup"] ELSE IdleTask]
      [] task.pc = "lookup" ->
           LET cl_ord_id == message.fields["ClOrdID"] IN
           IF cl_ord_id \in DOMAIN g.pending_orders
           THEN LET order == g.pending_orders[cl_ord_id] IN [g |-> g, task |-> IdleTask]
           ELSE [g |-> g, task |-> IdleTask]
      [] task.pc = "reject_fields" -> [g |-> g, task |-> IdleTask]

\* what the loop runs after a statement of task w that left it at pc: the
\* same task, or any task once w has ended or suspended
StillRunning(w, before, after) ==
    IF after = "idle" \/ GatewaySuspends(before) THEN {} ELSE {w}

InitGwLoop ==
    /\ now = StartTime
    /\ NoService
    /\ advances = 0
    /\ risk = RiskInit(TRUE, now)
    /\ proc = ProcInit
    /\ last = NoOp
    /\ tasks = [send_order |-> IdleTask, handler |-> IdleTask]
    /\ running = {}
    /\ NoGateway
    /\ NoOrder

\* the listener's task calls send_order
CallSendOrder ==
    /\ running = {}
    /\ tasks.send_order.pc = "idle"
    /\ gw.stats.orders_sent < MaxSent
    /\ \E order \in ProcessedOrders(now) :
         tasks' = [tasks EXCEPT !.send_order = [pc |-> "connected", order |-> order]]
    /\ running' = {"send_order"}
    /\ last' = [op |-> "call send_order"]
    /\ UNCHANGED <<now, advances, risk, proc, gwVars, orderVars, svcVars>>

SendOrderStatement ==
    /\ tasks.send_order.pc \in InSendOrder
    /\ running \subseteq {"send_order"}
    /\ \E outcome \in SendOutcomes :
         LET s == SendOrderStep(gw, sent, tasks.send_order, now, outcome)
         IN /\ gw' = s.g
            /\ sent' = s.sent
            /\ tasks' = [tasks EXCEPT !.send_order = s.task]
            /\ running' = StillRunning("send_order", tasks.send_order.pc, s.task.pc)
            /\ last' = [op |-> "send_order", pc |-> tasks.send_order.pc, result |-> s.result]
    /\ UNCHANGED <<now, advances, risk, proc, created, orderVars, svcVars>>

\* the loop starts the oldest task fromApp created
StartAppMessage ==
    /\ running = {}
    /\ tasks.handler.pc = "idle"
    /\ created # <<>>
    /\ tasks' = [tasks EXCEPT !.handler = [pc |-> "msg_type", message |-> Head(created)]]
    /\ created' = Tail(created)
    /\ running' = {"handler"}
    /\ last' = [op |-> "start _process_app_message"]
    /\ UNCHANGED <<now, advances, risk, proc, gw, sent, orderVars, svcVars>>

AppMessageStatement ==
    /\ tasks.handler.pc \in InAppMessage
    /\ running \subseteq {"handler"}
    /\ LET s == AppMessageStep(gw, tasks.handler)
       IN /\ gw' = s.g
          /\ tasks' = [tasks EXCEPT !.handler = s.task]
          /\ running' = StillRunning("handler", tasks.handler.pc, s.task.pc)
          /\ last' = [op |-> "_process_app_message", pc |-> tasks.handler.pc]
    /\ UNCHANGED <<now, advances, risk, proc, sent, created, orderVars, svcVars>>

\* fromApp, called by the engine's thread at any time, or in the event loop
\* when the loop runs no task
FromAppThread ==
    /\ gw.connected
    /\ gw.stats.messages_received < MaxReceived
    /\ \E message \in AppMessages, in_event_loop \in BOOLEAN :
         /\ in_event_loop => running = {}
         /\ LET f == fromApp(gw, created, Delivered(message, gw.stats.messages_received + 1),
                             in_event_loop)
            IN /\ gw' = f.g
               /\ created' = f.created
               /\ last' = [op |-> "fromApp", message |-> message]
    /\ UNCHANGED <<now, advances, risk, proc, loopVars, sent, orderVars, svcVars>>

NextGwLoop ==
    \/ OnCreate
    \/ OnLogon
    \/ OnLogout
    \/ FromAppThread
    \/ CallSendOrder
    \/ SendOrderStatement
    \/ StartAppMessage
    \/ AppMessageStatement

SpecGwLoop == InitGwLoop /\ [][NextGwLoop]_vars

-----------------------------------------------------------------------------
(* The gateway's start(): the coroutine starts the FIX engine and polls    *)
(* self.connected until the logon callback has set it or the timeout has   *)
(* passed; the engine's thread calls the callbacks in between, and stop()  *)
(* may be called.  The event loop resumes the sleeping coroutine.          *)

\* asyncio.sleep(0.1) returns after the interval, or later on a busy loop
SleepTimes == {poll_interval, 10 * poll_interval}

InitStart ==
    /\ now = StartTime
    /\ NoService
    /\ advances = 0
    /\ risk = RiskInit(TRUE, now)
    /\ proc = ProcInit
    /\ last = NoOp
    /\ NoTasks
    /\ NoGateway
    /\ NoOrder

Initialize ==
    /\ gw.initiator = "none"
    /\ starter.pc = "idle"
    /\ \E created_ok \in BOOLEAN :
         LET i == initialize(gw, created_ok)
         IN /\ gw' = i.g
            /\ last' = [op |-> "initialize", result |-> i.result]
    /\ UNCHANGED <<now, advances, risk, proc, loopVars, sent, created, orderVars, svcVars>>

StartGateway ==
    /\ starter.pc = "idle"
    /\ \E initiator_starts \in BOOLEAN :
         LET s == start(gw, starter, now, initiator_starts)
         IN /\ gw' = s.g
            /\ starter' = s.starter
    /\ last' = [op |-> "start"]
    /\ UNCHANGED <<now, advances, risk, proc, loopVars, sent, created, orderVars,
                   listener, inbox, dispatched, accepted, server>>

WaitForConnection ==
    /\ starter.pc = "waiting"
    /\ \E slept \in SleepTimes :
         LET w == _wait_for_connection(gw, starter, now, slept)
         IN /\ starter' = w.starter
            /\ now' = w.t
    /\ last' = [op |-> "_wait_for_connection", at |-> now]
    /\ UNCHANGED <<advances, risk, proc, loopVars, gwVars, orderVars,
                   listener, inbox, dispatched, accepted, server>>

\* the engine calls the gateway's callbacks once the initiator exists
EngineCreate == gw.initiator # "none" /\ OnCreate
EngineLogon == gw.initiator = "started" /\ OnLogon
EngineLogout == gw.initiator = "started" /\ OnLogout

StopGateway ==
    /\ gw.initiator # "stopped"
    /\ gw' = stop(gw)
    /\ last' = [op |-> "stop"]
    /\ UNCHANGED <<now, advances, risk, proc, loopVars, sent, created, orderVars, svcVars>>

NextStart ==
    \/ Initialize
    \/ StartGateway
    \/ WaitForConnection
    \/ EngineCreate
    \/ EngineLogon
    \/ EngineLogout
    \/ StopGateway

SpecStart ==
    /\ InitStart
    /\ [][NextStart]_vars
    /\ WF_vars(StartGateway)
    /\ WF_vars(WaitForConnection)

-----------------------------------------------------------------------------
(* The order processor called once with a request that deviates from a     *)
(* well-formed one in up to two fields, so that two rules can fail at once. *)

TwoFieldsReplaced(data) ==
    UNION {{[data EXCEPT ![fs[1]] = v1, ![fs[2]] = v2] :
                v1 \in Replacements(fs[1]), v2 \in Replacements(fs[2])} :
             fs \in {p \in RequestFields \X RequestFields : p[1] # p[2]}}

RequestPairs ==
    {OrderRequest(data) :
        data \in {SPXWRequest(1), ESRequest(1)}
                   \cup OneFieldReplaced(SPXWRequest(1)) \cup OneFieldReplaced(ESRequest(1))
                   \cup TwoFieldsReplaced(SPXWRequest(1)) \cup TwoFieldsReplaced(ESRequest(1))}

InitValidate ==
    /\ now = StartTime
    /\ NoService
    /\ advances = 0
    /\ \E enabled \in BOOLEAN : risk = RiskInit(enabled, now)
    /\ proc = ProcInit
    /\ NoGateway
    /\ NoOrder
    /\ NoTasks
    /\ \E order_request \in RequestPairs : last = [op |-> "request", request |-> order_request]

ProcessRequest ==
    /\ last.op = "request"
    /\ LET res == process_order(proc, risk, last.request, now)
       IN /\ proc' = res.p
          /\ risk' = res.r
          /\ last' = [op |-> "process_order", request |-> last.request,
                      result |-> res.result]
    /\ UNCHANGED <<now, advances, loopVars, gwVars, orderVars, svcVars>>

NextValidate == ProcessRequest

SpecValidate == InitValidate /\ [][NextValidate]_vars

-----------------------------------------------------------------------------
(* FIX utility functions (utils/fix_utils.py).  A str is the sequence of    *)
(* its characters' codes (ord), so that lengths and checksums are computed. *)

SOH == 1
EqualsSign == 61
DigitZero == 48

\* the strings of the model, written as their characters' codes
BeginString44 == <<70, 73, 88, 46, 52, 46, 52>>     \* "FIX.4.4"
BeginString42 == <<70, 73, 88, 46, 52, 46, 50>>     \* "FIX.4.2"
TextT1 == <<84, 49>>                                 \* "T1"
TextES == <<69, 83>>                                 \* "ES"
MsgTypeCodes == {68, 56, 65, 53}                     \* "D", "8", "A", "5"

RECURSIVE SumOrd(_)
SumOrd(s) == IF s = <<>> THEN 0 ELSE Head(s) + SumOrd(Tail(s))

\* str(n) for a natural number
RECURSIVE Str(_)
Str(n) == IF n < 10 THEN <<DigitZero + n>> ELSE Str(n \div 10) \o <<DigitZero + (n % 10)>>

\* f"{n:03d}"
Format03d(n) ==
    IF n < 10 THEN <<DigitZero, DigitZero>> \o Str(n)
    ELSE IF n < 100 THEN <<DigitZero>> \o Str(n)
    ELSE Str(n)

IsDigits(s) == s # <<>> /\ \A i \in DOMAIN s : s[i] \in DigitZero .. DigitZero + 9

\* int(s) of a string of digits
RECURSIVE IntOf(_)
IntOf(s) ==
    IF s = <<>> THEN 0
    ELSE 10 * IntOf(SubSeq(s, 1, Len(s) - 1)) + (s[Len(s)] - DigitZero)

\* sep.join(parts)
RECURSIVE Join(_, _)
Join(parts, sep) ==
    IF parts = <<>> THEN <<>>
    ELSE IF Len(parts) = 1 THEN parts[1]
    ELSE parts[1] \o <<sep>> \o Join(Tail(parts), sep)

FirstIndex(s, c) ==
    IF \E i \in DOMAIN s : s[i] = c
    THEN CHOOSE i \in DOMAIN s : s[i] = c /\ \A j \in 1 .. i - 1 : s[j] # c
    ELSE 0

\* s.split(sep)
RECURSIVE Split(_, _)
Split(s, sep) ==
    LET i == FirstIndex(s, sep)
    IN IF i = 0 THEN <<s>>
       ELSE <<SubSeq(s, 1, i - 1)>> \o Split(SubSeq(s, i + 1, Len(s)), sep)

\* sorted(fields.keys())
RECURSIVE Sorted(_)
Sorted(S) ==
    IF S = {} THEN <<>>
    ELSE LET m == CHOOSE x \in S : \A y \in S : x <= y
         IN <<m>> \o Sorted(S \ {m})

\* f"{tag}={value}"
Field(tag, value) == Str(tag) \o <<EqualsSign>> \o value

calculate_checksum(message) == SumOrd(message) % 256

\* the text "8=<begin>|9=<length>|<body>|" and its trailer "10=<checksum>|"
WithTrailer(text, checksum) == text \o Field(10, Format03d(checksum)) \o <<SOH>>
Headed(begin, length, body) ==
    Field(8, begin) \o <<SOH>> \o Field(9, Str(length)) \o <<SOH>> \o body \o <<SOH>>

build_fix_message(fields, msg_type) ==
    LET tags == Sorted(DOMAIN fields \ {8, 9, 10})
        message_parts ==
            <<Field(35, msg_type)>> \o [i \in DOMAIN tags |-> Field(tags[i], fields[tags[i]])]
        body == Join(message_parts, SOH)
        body_length == Len(body) + 1
        full_message == Headed(BeginString44, body_length, body)
    IN WithTrailer(full_message, calculate_checksum(full_message))

\* the loop body of parse_fix_message: a part without "=" and a part whose
\* tag is not an integer are skipped
RECURSIVE ParseParts(_, _)
ParseParts(parts, fields) ==
    IF parts = <<>> THEN fields
    ELSE LET part == Head(parts)
             i == FirstIndex(part, EqualsSign)
             tag_str == SubSeq(part, 1, i - 1)
             value == SubSeq(part, i + 1, Len(part))
         IN IF i = 0 \/ ~IsDigits(tag_str) THEN ParseParts(Tail(parts), fields)
            ELSE ParseParts(Tail(parts), Put(fields, IntOf(tag_str), value))

\* parse_fix_message: the field dictionary of any string; nothing is raised
parse_fix_message(message) ==
    [kind |-> "return", fields |-> ParseParts(Split(message, SOH), EmptyDict)]

-----------------------------------------------------------------------------
(* parse_fix_message called once on a message: one that build_fix_message   *)
(* built, or the same with one of BeginString, BodyLength, CheckSum wrong.   *)

FixFieldSets ==
    {[tag \in {11} |-> TextT1],
     [tag \in {11, 55} |-> IF tag = 11 THEN TextT1 ELSE TextES],
     [tag \in {11, 38, 55} |-> IF tag = 11 THEN TextT1
                               ELSE IF tag = 55 THEN TextES ELSE Str(1)],
     [tag \in {10, 11, 38} |-> IF tag = 11 THEN TextT1 ELSE Str(1)]}

Bodies ==
    {LET tags == Sorted(DOMAIN fields \ {8, 9, 10})
     IN Join(<<Field(35, <<msg_type>>)>>
                 \o [i \in DOMAIN tags |-> Field(tags[i], fields[tags[i]])], SOH) :
        fields \in FixFieldSets, msg_type \in MsgTypeCodes}

Corruptions == {"none", "begin_string", "body_length_long", "body_length_short", "checksum"}

Corrupted(body, corruption) ==
    LET begin == IF corruption = "begin_string" THEN BeginString42 ELSE BeginString44
        length == CASE corruption = "body_length_long" -> Len(body) + 2
                    [] corruption = "body_length_short" -> Len(body)
                    [] OTHER -> Len(body) + 1
        text == Headed(begin, length, body)
        checksum == IF corruption = "checksum"
                    THEN (calculate_checksum(text) + 1) % 256
                    ELSE calculate_checksum(text)
    IN WithTrailer(text, checksum)

FixMessages ==
    {build_fix_message(fields, <<msg_type>>) : fields \in FixFieldSets, msg_type \in MsgTypeCodes}
        \cup {Corrupted(body, corruption) : body \in Bodies, corruption \in Corruptions}

InitFix ==
    /\ now = StartTime
    /\ NoService
    /\ advances = 0
    /\ risk = RiskInit(TRUE, now)
    /\ proc = ProcInit
    /\ NoGateway
    /\ NoOrder
    /\ NoTasks
    /\ \E message \in FixMessages : last = [op |-> "message", message |-> message]

ParseFixMessage ==
    /\ last.op = "message"
    /\ last' = [op |-> "parse_fix_message", message |-> last.message,
                result |-> parse_fix_message(last.message)]
    /\ UNCHANGED <<now, advances, risk, proc, loopVars, gwVars, orderVars, svcVars>>

NextFix == ParseFixMessage

SpecFix == InitFix /\ [][NextFix]_vars

-----------------------------------------------------------------------------
(* One ProcessedOrder and the calls of its methods *)

FillPrices == {25000, 26000}

InitOrder ==
    /\ now = StartTime
    /\ NoService
    /\ advances = 0
    /\ risk = RiskInit(TRUE, now)
    /\ proc = ProcInit
    /\ last = NoOp
    /\ NoTasks
    /\ gw = GwInit /\ sent = <<>> /\ created = <<>>
    /\ calls = 0
    /\ \E data \in WellFormedRequests :
         LET order_request == OrderRequest(data)
             instrument == _resolve_instrument(ProcInit, order_request, now).instrument
         IN porder = _enrich_order(_create_processed_order(order_request, instrument, now))

AddFill ==
    /\ calls < MaxCalls
    /\ \E fill_quantity \in 0 .. MaxFill, fill_price \in FillPrices :
         LET a == add_fill(porder, fill_quantity, fill_price, now)
         IN /\ porder' = a.order
            /\ last' = [op |-> "add_fill", fill_quantity |-> fill_quantity,
                        fill_price |-> fill_price, result |-> a.result]
    /\ calls' = calls + 1
    /\ UNCHANGED <<now, advances, risk, proc, loopVars, gwVars, svcVars>>

UpdateStatus ==
    /\ calls < MaxCalls
    /\ \E status \in OrderStatuses :
         /\ porder' = update_status(porder, status, now)
         /\ last' = [op |-> "update_status", status |-> status]
    /\ calls' = calls + 1
    /\ UNCHANGED <<now, advances, risk, proc, loopVars, gwVars, svcVars>>

NextOrder == AdvanceClock \/ AddFill \/ UpdateStatus

SpecOrder == InitOrder /\ [][NextOrder]_vars

-----------------------------------------------------------------------------
(* One ProcessedOrder and nothing but fills; last.fills is the sequence of
   the fills added so far *)

MaxFills == 3
FillOrderQuantities == {3, 10}
FillQuantities == {0, 1, 2, 4, 6}

InitFills ==
    /\ now = StartTime
    /\ NoService
    /\ advances = 0
    /\ risk = RiskInit(TRUE, now)
    /\ proc = ProcInit
    /\ last = NoOp
    /\ NoTasks
    /\ gw = GwInit /\ sent = <<>> /\ created = <<>>
    /\ calls = 0
    /\ \E quantity \in FillOrderQuantities :
         LET order_request == OrderRequest(ESRequest(quantity))
             instrument == _resolve_instrument(ProcInit, order_request, now).instrument
         IN porder = _enrich_order(_create_processed_order(order_request, instrument, now))

FillsSoFar == IF last.op = "add_fill" THEN last.fills ELSE <<>>

Fill ==
    /\ calls < MaxFills
    /\ \E fill_quantity \in FillQuantities, fill_price \in FillPrices :
         LET a == add_fill(porder, fill_quantity, fill_price, now)
         IN /\ porder' = a.order
            /\ last' = [op |-> "add_fill", fill_quantity |-> fill_quantity,
                        fill_price |-> fill_price, result |-> a.result,
                        fills |-> Append(FillsSoFar, <<fill_quantity, fill_price>>)]
    /\ calls' = calls + 1
    /\ UNCHANGED <<now, advances, risk, proc, loopVars, gwVars, svcVars>>

NextFills == Fill

SpecFills == InitFills /\ [][NextFills]_vars

RECURSIVE FillValue(_)
\* the sum of fill_quantity * fill_price over a sequence of fills
FillValue(fills) ==
    IF fills = <<>> THEN 0
    ELSE FillValue(Front(fills)) + fills[Len(fills)][1] * fills[Len(fills)][2]

RECURSIVE WithoutFactor(_, _)
WithoutFactor(n, p) == IF n % p = 0 THEN WithoutFactor(n \div p, p) ELSE n

\* total / n has a finite decimal expansion
Terminating(total, n) == total % WithoutFactor(WithoutFactor(n, 2), 5) = 0

StatusByRemaining ==
    /\ porder.status = "FILLED" <=> porder.remaining_quantity = 0
    /\ porder.status = "PARTIALLY_FILLED" <=> porder.remaining_quantity # 0

LatestFill ==
    /\ porder.last_quantity = Some(last.fill_quantity)
    /\ porder.last_price = Some(last.fill_price)

FourThenSix ==
    (/\ porder.quantity = 10
     /\ Len(last.fills) = 2
     /\ last.fills[1][1] = 4
     /\ last.fills[2][1] = 6) => porder.status = "FILLED"

\* avg_price * filled_quantity, exactly
Weighted == [coeff |-> MulDigits(Val(porder.avg_price).coeff, porder.filled_quantity),
             exp |-> Val(porder.avg_price).exp]

AgreedDigits == 24

RECURSIVE FilledBy(_)
\* the sum of fill_quantity over a sequence of fills
FilledBy(fills) ==
    IF fills = <<>> THEN 0 ELSE FilledBy(Front(fills)) + fills[Len(fills)][1]

\* every average that add_fill has computed so far has a finite expansion
AveragesTerminate(fills) ==
    \A i \in 1 .. Len(fills) :
        FilledBy(SubSeq(fills, 1, i)) > 0 =>
            Terminating(FillValue(SubSeq(fills, 1, i)), FilledBy(SubSeq(fills, 1, i)))

C37_FourThenSix ==
    /\ last.op = "add_fill"
    /\ porder.quantity = 10
    /\ Len(last.fills) = 2
    /\ last.fills[1][1] = 4
    /\ last.fills[2][1] = 6
    /\ porder.avg_price # None

-----------------------------------------------------------------------------
(* The listener's message loop: frames arrive on the socket, and each loop *)
(* iteration receives the oldest and awaits _process_message for it before *)
(* it receives the next.  The FIX engine's callbacks come in between.      *)

Without(d, keys) == [f \in (DOMAIN d) \ keys |-> d[f]]

\* the frames of the model: text that is no JSON, a document nested too
\* deep, a list, objects that OrderRequest cannot be constructed from, two
\* well-formed orders (one giving only some optional members), an option
\* that expires today and an order above max_order_size
ListenerFrames ==
    {Frame("invalid", EmptyDict), Frame("too_deep", EmptyDict), Frame("array", EmptyDict),
     Frame("object", Without(SPXWRequest(1), {"order_id"})),
     Frame("object", Put(ESRequest(1), "colour", "red")),
     Frame("object", SPXWRequest(1)),
     Frame("object", Without(ESRequest(1), {"price", "account", "text", "time_in_force"})),
     Frame("object", [SPXWRequest(1) EXCEPT !.expiry_date = Some(DateString(0))]),
     Frame("object", ESRequest(MaxQty))}

InitListener ==
    /\ now = StartTime
    /\ advances = 0
    /\ \E enabled \in BOOLEAN : risk = RiskInit(enabled, now)
    /\ proc = ProcInit
    /\ last = NoOp
    /\ NoTasks
    /\ NoGateway
    /\ NoOrder
    /\ ServiceStarted

\* the frames that have arrived so far
Arrivals == listener.stats.orders_received + Len(inbox)

Arrive ==
    /\ listener.socket = "bound"
    /\ Arrivals < MaxFrames
    /\ \E frame \in ListenerFrames :
         inbox' = Append(inbox, [arrival |-> Arrivals + 1, frame |-> frame])
    /\ last' = [op |-> "arrive"]
    /\ UNCHANGED <<now, advances, risk, proc, loopVars, gwVars, orderVars,
                   listener, dispatched, accepted, starter, server>>

\* the state after _process_message has ended as m on the received frame
Processed(received, m) ==
    /\ inbox' = received.rest
    /\ listener' = m.l
    /\ proc' = m.p
    /\ risk' = m.r
    /\ gw' = m.g
    /\ sent' = m.sent
    /\ dispatched' = IF Raised(m.error) THEN dispatched
                     ELSE Append(dispatched, received.message.arrival)
    /\ last' = [op |-> "_process_message", arrival |-> received.message.arrival,
                message |-> received.message.frame, error |-> m.error,
                result |-> m.result]

\* the order that check_order lets pass while _process_message handles the
\* frame, if any: process_order returns exactly when check_order has returned
AcceptedOf(p, r, message, t) ==
    IF Raised(json_loads(message)) \/ IsException(OrderRequestError(message)) THEN <<>>
    ELSE LET po == process_order(p, r, OrderRequest(WithDefaults(message.members)), t)
         IN IF Raised(po.result) THEN <<>>
            ELSE <<[symbol |-> po.result.order.symbol,
                    quantity |-> po.result.order.quantity, day |-> DateOf(t)]>>

\* one iteration of _message_loop that receives a frame
ProcessMessage ==
    /\ listener.running
    /\ inbox # <<>>
    /\ accepted' = accepted \o AcceptedOf(proc, risk, recv_string(inbox).message.frame, now)
    /\ \E outcome \in SendOutcomes :
         Processed(recv_string(inbox),
                   _process_message(listener, proc, risk, gw, sent,
                                    recv_string(inbox).message.frame, now, outcome))
    /\ UNCHANGED <<now, advances, loopVars, created, orderVars, starter, server>>

NextListener ==
    \/ Arrive
    \/ ProcessMessage
    \/ OnCreate
    \/ OnLogon
    \/ OnLogout

SpecListener == InitListener /\ [][NextListener]_vars

-----------------------------------------------------------------------------
(* Properties of the order processor *)

IsProcessOrderStep ==
    proc'.stats.total_processed + proc'.stats.total_failed
        = proc.stats.total_processed + proc.stats.total_failed + 1

ReturnedOrder(result) == result.kind = "return" /\ "order" \in DOMAIN result
Failed(result) == result.kind # "return" /\ "order" \notin DOMAIN result

\* the client order id the request asks for: its own, or its order_id when
\* it gives none
RequestedClientOrderId(request) ==
    IF request.client_order_id = None \/ request.client_order_id = Some("")
    THEN request.order_id
    ELSE Val(request.client_order_id)

C6_Step ==
    IsProcessOrderStep =>
        LET request == last'.request
            result == last'.result
        IN /\ last'.op = "process_order"
           /\ ReturnedOrder(result) # Failed(result)
           /\ ReturnedOrder(result) =>
                 /\ result.order.client_order_id = RequestedClientOrderId(request)
                 /\ result.order.quantity = request.quantity
                 /\ result.order.remaining_quantity = request.quantity
                 /\ result.order.filled_quantity = 0
                 /\ result.order.status = "NEW"
                 /\ proc'.stats.total_processed = proc.stats.total_processed + 1
                 /\ proc'.stats.total_failed = proc.stats.total_failed
           /\ Failed(result) =>
                 /\ proc'.stats.total_failed = proc.stats.total_failed + 1
                 /\ proc'.stats.total_processed = proc.stats.total_processed

\* C6: every process_order either returns a ProcessedOrder whose
\* client_order_id is the request's (its order_id when it gives none), whose
\* remaining_quantity is the quantity, whose filled_quantity is 0 and whose
\* status is NEW, or fails with an error, and never does both.
C6_ProcessOrderResult == [][C6_Step]_vars

C6_Witness ==
    /\ last.op = "process_order"
    /\ last.request.order_id = "T2"
    /\ last.request.client_order_id = Some("C9")
    /\ ReturnedOrder(last.result)
    /\ last.result.order.client_order_id = "C9"
    /\ last.result.order.remaining_quantity = last.request.quantity

\* the typed error of each stage of the pipeline
StageErrors == {"OrderValidationError", "InstrumentError", "RiskManagementError"}

\* C7: a failed process_order surfaces the typed error of the stage that
\* failed: OrderValidationError for validation, InstrumentError for instrument
\* resolution, RiskManagementError for a risk rejection, and
\* OrderProcessingError only for other failures.
C7_TypedFailure ==
    (last.op = "process_order" /\ Failed(last.result)) =>
        (last.result.cause.kind \in StageErrors =>
            last.result.kind = last.result.cause.kind)

-----------------------------------------------------------------------------
(* Properties of the gateway *)

IsSendOrderStep == last'.op = "send_order" /\ <<gw, sent, last>>' # <<gw, sent, last>>

\* C8: a send_order while the session is not connected is rejected with a
\* connection error, inserts nothing into pending_orders, hands no message to
\* the session and leaves messages_sent and orders_sent unchanged.
C8_RejectedWhenNotConnected ==
    [][(IsSendOrderStep /\ ~gw.connected) =>
          /\ last'.result.kind = "FixConnectionError"
          /\ gw'.pending_orders = gw.pending_orders
          /\ sent' = sent
          /\ gw'.stats.messages_sent = gw.stats.messages_sent
          /\ gw'.stats.orders_sent = gw.stats.orders_sent]_vars

\* what does hold of a send_order while not connected: it raises, and the
\* gateway and the session are as before
C8_NothingSent ==
    [][(IsSendOrderStep /\ ~gw.connected) =>
          /\ Raised(last'.result)
          /\ gw' = gw
          /\ sent' = sent]_vars

\* C9: after a send_order that raised, pending_orders holds no entry that
\* the call inserted, and the error reaches the caller.
C9_RemovedOnSendFailure ==
    [][(IsSendOrderStep /\ Raised(last'.result)) =>
          \A id \in DOMAIN gw'.pending_orders :
              /\ id \in DOMAIN gw.pending_orders
              /\ gw'.pending_orders[id] = gw.pending_orders[id]]_vars

IsReportStep ==
    /\ created # <<>>
    /\ created' = Tail(created)
    /\ last'.op = "_process_app_message"
    /\ Head(created).msg_type = EXECUTION_REPORT
    /\ {"ClOrdID", "ExecType", "OrdStatus", "CumQty", "LastQty"}
           \subseteq DOMAIN Head(created).fields

\* OrdStatus (tag 39) as an OrderStatus
StatusOf(ord_status) ==
    CASE ord_status = "0" -> "NEW"
      [] ord_status = "1" -> "PARTIALLY_FILLED"
      [] ord_status = "2" -> "FILLED"
      [] ord_status = "4" -> "CANCELED"
      [] ord_status = "8" -> "REJECTED"
      [] ord_status = "C" -> "EXPIRED"
      [] OTHER -> "NEW"

TerminalStatuses == {"FILLED", "CANCELED", "REJECTED", "EXPIRED"}

\* a report for a pending order is being handled
IsPendingReportStep ==
    IsReportStep /\ Head(created).fields["ClOrdID"] \in DOMAIN gw.pending_orders

\* C10: an ExecutionReport whose ClOrdID is that of a pending order updates
\* the order's status, cumulative and last fill quantities and updated_time
\* from the report.
C10_ReportUpdatesOrder ==
    [][(IsReportStep /\ Head(created).fields["ClOrdID"] \in DOMAIN gw.pending_orders) =>
          LET report == Head(created).fields
              id == report["ClOrdID"]
          IN /\ id \in DOMAIN gw'.pending_orders =>
                   /\ gw'.pending_orders[id].status = StatusOf(report["OrdStatus"])
                   /\ gw'.pending_orders[id].filled_quantity = report["CumQty"]
                   /\ gw'.pending_orders[id].last_quantity = Some(report["LastQty"])
                   /\ gw'.pending_orders[id].updated_time = now
             /\ id \notin DOMAIN gw'.pending_orders =>
                   StatusOf(report["OrdStatus"]) \in {"FILLED", "CANCELED", "REJECTED"}]_vars

\* C11: an ExecutionReport for a pending order moves the risk position of
\* the order's symbol by last_qty, signed by the order's side.
C11_PositionByLastQty ==
    [][IsPendingReportStep =>
          LET report == Head(created).fields
              pending == gw.pending_orders[report["ClOrdID"]]
              delta == IF pending.side = "BUY" THEN report["LastQty"]
                       ELSE -report["LastQty"]
          IN Get(risk'.positions, pending.symbol, 0)
                 = Get(risk.positions, pending.symbol, 0) + delta]_vars

\* C12: an ExecutionReport with a terminal order status for a pending order
\* removes the order from pending_orders.
C12_TerminalRemoved ==
    [][(IsPendingReportStep
          /\ StatusOf(Head(created).fields["OrdStatus"]) \in TerminalStatuses) =>
          Head(created).fields["ClOrdID"] \notin DOMAIN gw'.pending_orders]_vars

IsUnknownReportStep ==
    /\ created # <<>>
    /\ created' = Tail(created)
    /\ last'.op = "_process_app_message"
    /\ Head(created).msg_type = EXECUTION_REPORT
    /\ {"ClOrdID", "ExecType", "OrdStatus"} \subseteq DOMAIN Head(created).fields
    /\ Head(created).fields["ClOrdID"] \notin DOMAIN gw.pending_orders

\* C13: an ExecutionReport whose ClOrdID is not a key of pending_orders is
\* discarded: pending_orders and every pending order are unchanged, the
\* connected flag and the session keep their values, nothing is sent, and the
\* handler's task ends.
C13_UnknownDiscarded ==
    [][IsUnknownReportStep =>
          /\ gw'.pending_orders = gw.pending_orders
          /\ gw'.connected = gw.connected
          /\ gw'.session_id = gw.session_id
          /\ gw'.stats.execution_reports = gw.stats.execution_reports + 1
          /\ sent' = sent
          /\ UNCHANGED <<risk, proc, svcVars>>]_vars

C13_Witness ==
    /\ last.op = "_process_app_message"
    /\ last.message.msg_type = EXECUTION_REPORT
    /\ last.message.fields["ClOrdID"] = "X9"
    /\ gw.stats.execution_reports = 1
    /\ gw.connected
    /\ DOMAIN gw.pending_orders # {}

IsCancelRejectStep ==
    /\ created # <<>>
    /\ created' = Tail(created)
    /\ last'.op = "_process_app_message"
    /\ Head(created).msg_type = ORDER_CANCEL_REJECT

\* C14: an OrderCancelReject leaves pending_orders, and so the status and
\* the fill fields of the order it refers to, as they were.
C14_CancelRejectKeepsOrder ==
    [][IsCancelRejectStep =>
          /\ gw'.pending_orders = gw.pending_orders
          /\ gw' = gw]_vars

C14_Witness ==
    /\ last.op = "_process_app_message"
    /\ last.message.msg_type = ORDER_CANCEL_REJECT
    /\ last.message.fields["ClOrdID"] \in DOMAIN gw.pending_orders
    /\ gw.pending_orders[last.message.fields["ClOrdID"]].status = "NEW"
    /\ gw.pending_orders[last.message.fields["ClOrdID"]].filled_quantity = 0

-----------------------------------------------------------------------------
(* Properties of a ProcessedOrder *)

\* C15: filled_quantity + remaining_quantity = quantity, at creation and
\* after any sequence of add_fill and update_status calls.
C15_QuantitiesAddUp ==
    porder.filled_quantity + porder.remaining_quantity = porder.quantity

C15_Witness ==
    /\ calls >= 2
    /\ last.op = "add_fill"
    /\ last.fill_quantity > 0
    /\ porder.filled_quantity > last.fill_quantity
    /\ porder.remaining_quantity > 0
    /\ porder.status = "PARTIALLY_FILLED"

\* C16: remaining_quantity >= 0, that is filled_quantity <= quantity, after
\* any sequence of add_fill calls.
C16_RemainingNotNegative ==
    porder.remaining_quantity >= 0 /\ porder.filled_quantity <= porder.quantity

FillFields(order) ==
    <<order.filled_quantity, order.remaining_quantity, order.avg_price,
      order.last_price, order.last_quantity>>

\* C17: once an order is in a terminal status, no later operation changes
\* its status or its fill fields.
C17_TerminalIsFinal ==
    [][is_complete(porder) =>
          /\ porder'.status = porder.status
          /\ FillFields(porder') = FillFields(porder)]_vars

-----------------------------------------------------------------------------
(* Properties of the risk processor *)

\* a step that is one check_order call; its order and outcome are in last'
IsCheckOrderStep == risk'.stats.total_checks = risk.stats.total_checks + 1

\* what the call about to run sees after its daily-reset step
ResetDue == DateOf(now) > risk.last_reset_date
SeenVolumes == IF ResetDue THEN EmptyDict ELSE risk.daily_volumes
SeenOrders == IF ResetDue THEN EmptyDict ELSE risk.daily_orders
SeenRecent ==
    Cardinality({i \in 1 .. Len(risk.order_history) :
                    risk.order_history[i].timestamp > now - OneSecond})
Projected(order) ==
    Get(risk.positions, order.symbol, 0)
        + (IF order.side = "BUY" THEN order.quantity ELSE -order.quantity)

RiskError(reason) == [kind |-> "RiskManagementError", reason |-> reason]
IsRiskError(result) == result.kind = "RiskManagementError"

C1_VolumeBounded ==
    \A s \in DOMAIN risk.daily_volumes : risk.daily_volumes[s] <= max_daily_volume

C1_Admission ==
    (IsCheckOrderStep /\ risk.enabled) =>
        LET order == last'.order
            total == Get(SeenVolumes, order.symbol, 0) + order.quantity
        IN /\ last'.result = Returned => total <= max_daily_volume
           /\ total > max_daily_volume => IsRiskError(last'.result)
           /\ last'.result = RiskError("volume") => total > max_daily_volume

\* C1: with risk enabled the recorded daily volume of every symbol never
\* exceeds max_daily_volume: check_order accepts an order only if
\* daily_volume[symbol] + quantity <= max_daily_volume and raises a risk
\* error otherwise.
C1_DailyVolumeLimit == []C1_VolumeBounded /\ [][C1_Admission]_vars

\* a volume rejection of an order that fits the size limit, with the
\* symbol's recorded volume already above zero
C1_Witness ==
    /\ last.op = "check_order"
    /\ last.result = RiskError("volume")
    /\ risk.enabled
    /\ last.order.symbol \in DOMAIN risk.daily_volumes
    /\ risk.daily_volumes[last.order.symbol] + last.order.quantity > max_daily_volume

PassesEarlierChecks(order) ==
    /\ order.quantity <= max_order_size
    /\ Get(SeenVolumes, order.symbol, 0) + order.quantity <= max_daily_volume
    /\ Abs(Projected(order)) <= max_position_size

\* every accepted order still in the history has at most
\* max_orders_per_second accepted orders in the second ending with it
C3_WindowBounded ==
    \A i \in 1 .. Len(risk.order_history) :
        Cardinality({j \in 1 .. Len(risk.order_history) :
            /\ risk.order_history[j].timestamp > risk.order_history[i].timestamp - OneSecond
            /\ risk.order_history[j].timestamp <= risk.order_history[i].timestamp})
          <= max_orders_per_second

C3_RateStep ==
    (IsCheckOrderStep /\ risk.enabled) =>
        /\ last'.result = RiskError("rate")
             <=> (PassesEarlierChecks(last'.order) /\ SeenRecent >= max_orders_per_second)
        /\ SeenRecent >= max_orders_per_second => IsRiskError(last'.result)

\* C3 (amended): with risk enabled check_order raises the rate error exactly
\* when the order passes the size, daily-volume and position checks and the
\* number of recorded orders newer than now - 1 s is >= max_orders_per_second;
\* an order arriving at such a count is always rejected, so no window
\* (t - 1 s, t] holds more than max_orders_per_second accepted orders.
C3_RateLimit == []C3_WindowBounded /\ [][C3_RateStep]_vars

\* C3 as stated: the rate error is raised exactly when the count of recent
\* orders is >= max_orders_per_second.
C3_Original ==
    [][(IsCheckOrderStep /\ risk.enabled) =>
          (last'.result = RiskError("rate") <=> SeenRecent >= max_orders_per_second)]_vars

\* max_orders_per_second orders accepted within half a second and one more,
\* submitted in the same half second, rejected by the rate check
C3_Witness ==
    /\ last.op = "check_order"
    /\ last.result = RiskError("rate")
    /\ Len(risk.order_history) >= max_orders_per_second
    /\ Cardinality({i \in 1 .. Len(risk.order_history) :
           risk.order_history[i].timestamp >= now - HalfSecond}) = max_orders_per_second

C4_Step ==
    IsCheckOrderStep =>
        /\ risk'.positions = risk.positions
        /\ (risk.enabled /\ Abs(Projected(last'.order)) > max_position_size)
              => IsRiskError(last'.result)
        /\ last'.result = RiskError("position")
              => Abs(Projected(last'.order)) > max_position_size

\* C4: check_order rejects an order whose projected position
\* |position[symbol] +/- quantity| exceeds max_position_size, and it never
\* changes position[symbol], whether it accepts or rejects.
C4_PositionCheck == [][C4_Step]_vars

\* a SELL rejected by the position check against a short position
C4_Witness ==
    /\ last.op = "check_order"
    /\ last.result = RiskError("position")
    /\ last.order.side = "SELL"
    /\ last.order.symbol \in DOMAIN risk.positions
    /\ risk.positions[last.order.symbol] < 0

C5_Step ==
    (IsCheckOrderStep /\ Raised(last'.result)) =>
        /\ risk'.daily_volumes = SeenVolumes
        /\ risk'.daily_orders = SeenOrders
        /\ risk'.order_history = risk.order_history

\* C5: the risk checks read state without mutating it: when check_order
\* raises, daily_volumes, daily_orders and order_history are what they were
\* after that call's daily-reset step.
C5_ChecksDoNotMutate == [][C5_Step]_vars

\* a rejection in a state that holds recorded orders
C5_Witness ==
    /\ last.op = "check_order"
    /\ Raised(last.result)
    /\ risk.order_history # <<>>
    /\ risk.daily_volumes # EmptyDict

\* the daily counters after a call that found them empty
OnlyThis(order, count) == [s \in {order.symbol} |-> count]

C18_Step ==
    (IsCheckOrderStep /\ risk.enabled /\ DateOf(now) > risk.last_reset_date) =>
        LET order == last'.order
        IN /\ risk'.last_reset_date = DateOf(now)
           /\ risk'.positions = risk.positions
           /\ last'.result = RiskError("volume") =>
                 0 + order.quantity > max_daily_volume
           /\ (order.quantity <= max_order_size /\ order.quantity <= max_daily_volume) =>
                 (last'.result # RiskError("volume") /\ last'.result # RiskError("size"))
           /\ last'.result = Returned =>
                 /\ risk'.daily_volumes = OnlyThis(order, order.quantity)
                 /\ risk'.daily_orders = OnlyThis(order, 1)
           /\ Raised(last'.result) =>
                 /\ risk'.daily_volumes = EmptyDict
                 /\ risk'.daily_orders = EmptyDict

\* C18: when the UTC date is later than last_reset_date, the next
\* check_order with risk enabled clears daily_volumes and daily_orders of all
\* symbols before its checks, so the order is checked against a daily volume
\* of 0, and sets last_reset_date to the current date; positions are kept.
C18_DailyReset == [][C18_Step]_vars

\* two orders accepted, one on each side of midnight, and a position held
C18_Witness ==
    /\ last.op = "check_order"
    /\ last.result = Returned
    /\ risk.enabled
    /\ risk.stats.total_checks = 2
    /\ risk.stats.risk_violations = 0
    /\ risk.last_reset_date = DateOf(now)
    /\ risk.stats.last_reset = now
    /\ risk.daily_volumes = OnlyThis(last.order, last.order.quantity)
    /\ risk.daily_orders = OnlyThis(last.order, 1)
    /\ risk.positions # EmptyDict

C19_Step ==
    (IsCheckOrderStep /\ ~risk.enabled) =>
        /\ last'.result = Returned
        /\ risk'.daily_volumes = risk.daily_volumes
        /\ risk'.daily_orders = risk.daily_orders
        /\ risk'.order_history = risk.order_history
        /\ risk'.positions = risk.positions
        /\ risk'.last_reset_date = risk.last_reset_date
        /\ risk'.stats.risk_violations = risk.stats.risk_violations

\* C19: with risk disabled check_order accepts every order and skips the
\* reset and the record step: daily_volumes, daily_orders, order_history,
\* positions and last_reset_date are unchanged.
C19_DisabledBypasses == [][C19_Step]_vars

\* an order above max_order_size accepted after midnight, with a position
\* held and no reset made
C19_Witness ==
    /\ last.op = "check_order"
    /\ ~risk.enabled
    /\ last.order.quantity > max_order_size
    /\ last.result = Returned
    /\ DateOf(now) > risk.last_reset_date
    /\ risk.daily_volumes = EmptyDict
    /\ risk.order_history = <<>>
    /\ risk.stats.total_checks = 2

C2_OneInSection == Cardinality({w \in DOMAIN tasks : tasks[w].pc \in InCheckOrder}) <= 1

\* the orders admitted to `symbol` fit max_daily_volume together
C2_JointVolume ==
    \A s \in Symbols :
        LET admitted == {i \in 1 .. Len(risk.order_history) :
                            risk.order_history[i].symbol = s}
            Sum[S \in SUBSET admitted] ==
                IF S = {} THEN 0
                ELSE LET i == CHOOSE x \in S : TRUE
                     IN risk.order_history[i].quantity + Sum[S \ {i}]
        IN Sum[admitted] <= max_daily_volume

\* C2: with several check_order calls in flight, the checks and the record
\* step of one call are never interleaved with those of another, so the
\* admitted orders together respect max_daily_volume and
\* max_orders_per_second.
C2_CriticalSection ==
    /\ C2_OneInSection
    /\ C2_JointVolume
    /\ Len(risk.order_history) <= max_orders_per_second

\* all calls were in flight together; one order was admitted and another,
\* which would have passed alone, was rejected by the rate check
C2_Witness ==
    /\ tasks # <<>>
    /\ \E w1, w2 \in DOMAIN tasks :
         /\ tasks[w1].pc = "done" /\ tasks[w1].result = Returned
         /\ tasks[w2].pc = "done" /\ tasks[w2].result = RiskError("rate")
         /\ risk.enabled

-----------------------------------------------------------------------------
(* Properties of the listener *)

IsProcessMessageStep ==
    listener'.stats.orders_received = listener.stats.orders_received + 1

\* the frame a _process_message step is about
FrameOf(l) == l.message

\* what goes wrong with a frame, read off the frame and the state before
DecodeFails(frame) == Raised(json_loads(frame))
ConstructFails(frame) == ~DecodeFails(frame) /\ Raised(OrderRequestError(frame))
ProcessingFails(frame) ==
    /\ ~DecodeFails(frame)
    /\ ~Raised(OrderRequestError(frame))
    /\ Raised(process_order(proc, risk, OrderRequest(WithDefaults(frame.members)), now).result)

C21_Step ==
    IsProcessMessageStep =>
        LET frame == FrameOf(last')
            failing == \/ DecodeFails(frame)
                       \/ ConstructFails(frame)
                       \/ ProcessingFails(frame)
                       \/ sent' = sent
        IN /\ last'.result = Returned
           /\ inbox # <<>> /\ inbox' = Tail(inbox)
           /\ listener'.stats.orders_failed
                = listener.stats.orders_failed + (IF failing THEN 1 ELSE 0)
           /\ listener'.stats.orders_processed
                = listener.stats.orders_processed + (IF failing THEN 0 ELSE 1)

C21_Balanced ==
    listener.stats.orders_received
        = listener.stats.orders_processed + listener.stats.orders_failed

\* C21: for every received frame a JSON decode error, an OrderRequest
\* construction error, a processing error or a gateway send error adds
\* exactly one to orders_failed (and nothing to orders_processed), no
\* exception leaves _process_message and the loop goes on with the next
\* frame; between frames orders_received = orders_processed + orders_failed.
C21_FailuresCounted == [][C21_Step]_vars /\ []C21_Balanced

\* one frame was sent on and one failed with a gateway send error
C21_Witness ==
    /\ listener.stats.orders_processed = 1
    /\ listener.stats.orders_failed = 1
    /\ last.op = "_process_message"
    /\ Raised(last.error)
    /\ last.error.kind = "OrderProcessingError"
    /\ last.error.cause.kind \in {"FixConnectionError", "SessionNotFound"}

\* an option request whose expiry_date is not after today
ExpiredOption(frame) ==
    /\ frame.json = "object"
    /\ ~Raised(OrderRequestError(frame))
    /\ "expiry_date" \in DOMAIN frame.members
    /\ frame.members["expiry_date"] # None
    /\ Val(frame.members["expiry_date"]).valid
    /\ Val(frame.members["expiry_date"]).day <= DateOf(now)

\* C22: for a frame whose order fails processing, as an option request whose
\* expiry_date is not strictly after today does, the listener does not call
\* send_order: no message is handed to the FIX session, pending_orders and
\* the gateway's counters are as before, and the frame counts as failed.
C22_FailedNotSent ==
    [][(IsProcessMessageStep /\ (ProcessingFails(FrameOf(last')) \/ ExpiredOption(FrameOf(last'))))
          => /\ sent' = sent
             /\ gw' = gw
             /\ listener'.stats.orders_failed = listener.stats.orders_failed + 1]_vars

\* the option that expires today was rejected by the validator while the
\* FIX session was logged on
C22_Witness ==
    /\ last.op = "_process_message"
    /\ ExpiredOption(last.message)
    /\ Raised(last.error)
    /\ last.error.kind = "OrderProcessingError"
    /\ last.error.cause.kind = "OrderValidationError"
    /\ gw.connected /\ gw.session_id # None

\* C23: orders are handed to the FIX session in arrival order: the arrival
\* numbers of the frames whose send_order returned, in the order of the
\* calls, are increasing (each call ends before the next frame is received).
C23_ArrivalOrder ==
    /\ \A i, j \in DOMAIN dispatched : i < j => dispatched[i] < dispatched[j]
    /\ Len(sent) = Len(dispatched)

\* two frames were waiting on the socket and both were sent
C23_Witness ==
    /\ Len(dispatched) = 2
    /\ last.op = "_process_message"
    /\ ~Raised(last.error)

-----------------------------------------------------------------------------
(* Properties of the inbound path *)

\* the event loop ran the task of a message
IsAppTaskStep == created # <<>> /\ created' = Tail(created)

\* C24: messages are processed in the order the session delivers them: when
\* the _process_app_message task of a message runs, no task of a message
\* that fromApp was called with earlier is still waiting.
C24_DeliveryOrder ==
    [][IsAppTaskStep =>
          /\ last'.message = Head(created)
          /\ \A k \in DOMAIN created' : created'[k].seq > Head(created).seq]_vars

\* two reports were delivered one after the other, the task of the first
\* has run and that of the second is waiting
C24_Witness ==
    /\ last.op = "_process_app_message"
    /\ last.message.msg_type = EXECUTION_REPORT
    /\ created # <<>>
    /\ Head(created).msg_type = EXECUTION_REPORT
    /\ Head(created).seq = last.message.seq + 1

\* a task is between the first and the last statement of its coroutine
MidSendOrder == tasks.send_order.pc \in InSendOrder
MidAppMessage == tasks.handler.pc \in InAppMessage

\* C25: the accesses to pending_orders from send_order (the insert) and from
\* the handlers of inbound messages (the lookup) are serialized: no handler
\* runs between two statements of a send_order, and no send_order between
\* two statements of a handler; a step of one leaves the other where it was.
C25_Serialized ==
    /\ [](~(MidSendOrder /\ MidAppMessage))
    /\ [][/\ (MidSendOrder /\ gw'.pending_orders # gw.pending_orders)
                => tasks.handler.pc = "idle"
          /\ (tasks.handler.pc = "lookup" /\ tasks'.handler.pc = "idle")
                => tasks.send_order.pc = "idle"]_vars

\* send_order has stored its order and not yet sent it, and the task of a
\* report for that order is waiting to run
C25_Witness ==
    /\ tasks.send_order.pc = "session"
    /\ created # <<>>
    /\ Head(created).msg_type = EXECUTION_REPORT
    /\ Head(created).fields["ClOrdID"] = tasks.send_order.order.client_order_id

-----------------------------------------------------------------------------
(* Properties of the gateway's start *)

Elapsed == now - starter.start_time

C27_Step ==
    /\ (~gw.connected /\ gw'.connected) => last'.op = "onLogon"
    /\ (gw.connected /\ ~gw'.connected) => last'.op \in {"onLogout", "stop"}
    /\ (last'.op \in {"onLogout", "stop"}) => ~gw'.connected
    /\ (starter.pc = "waiting" /\ starter'.pc = "started") => gw.connected
    /\ (starter.pc = "waiting" /\ starter'.pc = "failed") =>
            /\ ~gw.connected
            /\ Elapsed >= logon_timeout
            /\ starter'.result.kind = "FixConnectionError"
            /\ starter'.result.cause.kind = "FixConnectionError"
    /\ (starter.pc = "waiting" /\ last'.op = "_wait_for_connection"
            /\ ~gw.connected /\ Elapsed >= logon_timeout) => starter'.pc = "failed"
    /\ (starter.pc = "waiting" /\ last'.op = "_wait_for_connection" /\ gw.connected)
            => starter'.pc = "started"
    /\ (starter'.pc = "failed") => starter'.result.kind = "FixConnectionError"

\* C27: connected becomes true only in the logon callback and false only in
\* the logout callback or stop(); start() returns only when it finds the
\* gateway connected, fails with a connection error when the logon timeout
\* (30 s) has passed without it, and always ends in one of the two ways.
C27_StartTerminates ==
    /\ [][C27_Step]_vars
    /\ <>(starter.pc \in {"started", "failed"})

\* start() gave up: it waited the whole timeout and no logon came
C27_Witness ==
    /\ starter.pc = "failed"
    /\ starter.result.cause.reason = "FIX connection timeout"
    /\ gw.session_id # None
    /\ ~gw.connected
    /\ Elapsed >= logon_timeout

-----------------------------------------------------------------------------
(* Properties of the pipeline and of the validator *)

\* the request fails validation, or validates and its instrument does not
\* resolve, in the state before the call
FailsBeforeRisk(request) ==
    \/ Raised(_validate_order(proc, request, now).result)
    \/ Raised(_resolve_instrument(proc, request, now).result)

\* C28: a request that fails validation or instrument resolution does not
\* reach the risk processor: the call fails, and daily_volumes, daily_orders,
\* order_history and the statistics (total_checks) of the risk processor are
\* as before the call.
C28_ShortCircuit ==
    [][(IsProcessOrderStep /\ FailsBeforeRisk(last'.request)) =>
          /\ Failed(last'.result)
          /\ risk' = risk
          /\ proc'.stats.total_failed = proc.stats.total_failed + 1]_vars

\* a request was rejected by the validator while risk checks were enabled
C28_Witness ==
    /\ last.op = "process_order"
    /\ Failed(last.result)
    /\ last.result.cause.kind = "OrderValidationError"
    /\ proc.stats.validation_failures = 1
    /\ risk.enabled
    /\ risk.stats.total_checks = 0

\* the rules of OrderValidator and of _validate_business_rules, each named
\* by the error it raises, in the order the code applies them
CodeOrder ==
    <<"order_id required", "symbol required", "side required", "quantity required",
      "order_type required", "time_in_force required",
      "order_id format", "symbol format", "account format", "client_order_id format",
      "side", "order_type", "time_in_force", "option_type",
      "price required", "stop_price required",
      "expiry_date format", "expiry_date future", "expire_time format", "expire_time future",
      "quantity range", "price range", "stop_price range", "strike_price range",
      "min_quantity", "max_show",
      "SPXW strike_price", "SPXW expiry_date", "SPXW option_type">>

OutOfRange(x, low) == x # None /\ (Val(x) < low \/ Val(x) > max_price)

\* does request o break the rule, taken by itself?
RuleFails(rule, o, t) ==
    CASE rule = "order_id required" -> o.order_id = ""
      [] rule = "symbol required" -> o.symbol = ""
      [] rule = "side required" -> o.side = ""
      [] rule = "quantity required" -> o.quantity < 1
      [] rule = "order_type required" -> o.order_type = ""
      [] rule = "time_in_force required" -> o.time_in_force = ""
      [] rule = "order_id format" -> ~order_id_pattern(o.order_id)
      [] rule = "symbol format" -> ~symbol_pattern(o.symbol)
      [] rule = "account format" -> TruthyStr(o.account) /\ ~account_pattern(Val(o.account))
      [] rule = "client_order_id format" ->
             TruthyStr(o.client_order_id) /\ ~order_id_pattern(Val(o.client_order_id))
      [] rule = "side" -> Upper(o.side) \notin {"BUY", "SELL"}
      [] rule = "order_type" -> Upper(o.order_type) \notin {"MARKET", "LIMIT", "STOP", "STOP_LIMIT"}
      [] rule = "time_in_force" -> Upper(o.time_in_force) \notin {"DAY", "GTC", "IOC", "FOK", "GTD"}
      [] rule = "option_type" ->
             TruthyStr(o.option_type) /\ Upper(Val(o.option_type)) \notin {"CALL", "PUT"}
      [] rule = "price required" ->
             /\ Upper(o.order_type) \in {"LIMIT", "STOP_LIMIT"}
             /\ (o.price = None \/ Val(o.price) <= 0)
      [] rule = "stop_price required" ->
             /\ Upper(o.order_type) \in {"STOP", "STOP_LIMIT"}
             /\ (o.stop_price = None \/ Val(o.stop_price) <= 0)
      [] rule = "expiry_date format" -> o.expiry_date # None /\ ~Val(o.expiry_date).valid
      [] rule = "expiry_date future" ->
             o.expiry_date # None /\ Val(o.expiry_date).valid
                /\ Val(o.expiry_date).day <= DateOf(t)
      [] rule = "expire_time format" -> o.expire_time # None /\ ~Val(o.expire_time).valid
      [] rule = "expire_time future" ->
             o.expire_time # None /\ Val(o.expire_time).valid /\ Val(o.expire_time).t <= t
      [] rule = "quantity range" -> o.quantity > max_quantity
      [] rule = "price range" -> OutOfRange(o.price, min_price)
      [] rule = "stop_price range" -> OutOfRange(o.stop_price, min_price)
      [] rule = "strike_price range" -> OutOfRange(o.strike_price, 1)
      [] rule = "min_quantity" ->
             o.min_quantity # None /\ (Val(o.min_quantity) <= 0 \/ Val(o.min_quantity) > o.quantity)
      [] rule = "max_show" ->
             o.max_show # None /\ (Val(o.max_show) <= 0 \/ Val(o.max_show) > o.quantity)
      [] rule = "SPXW strike_price" -> o.symbol = "SPXW" /\ ~TruthyNum(o.strike_price)
      [] rule = "SPXW expiry_date" -> o.symbol = "SPXW" /\ ~TruthyDate(o.expiry_date)
      [] rule = "SPXW option_type" -> o.symbol = "SPXW" /\ ~TruthyStr(o.option_type)

\* the rule of the specification's table that a rule of the code belongs to
\* ("unlisted" for the rules the table does not have)
RuleOfTable(rule) ==
    CASE rule \in {"order_id required", "symbol required", "side required",
                   "quantity required", "order_type required", "time_in_force required"}
             -> "presence"
      [] rule \in {"order_id format", "symbol format", "account format"} -> rule
      [] rule \in {"side", "order_type", "time_in_force", "option_type"} -> "enumerations"
      [] rule = "quantity range" -> "quantity"
      [] rule \in {"price required", "stop_price required"} -> "price presence"
      [] rule = "price range" -> "price range"
      [] rule \in {"expiry_date format", "expiry_date future"} -> "expiry"
      [] rule \in {"min_quantity", "max_show"} -> rule
      [] rule \in {"SPXW strike_price", "SPXW expiry_date", "SPXW option_type"}
             -> "SPXW-specific"
      [] OTHER -> "unlisted"

StatedOrder ==
    <<"presence", "order_id format", "symbol format", "account format", "enumerations",
      "quantity", "price presence", "price range", "expiry", "min_quantity", "max_show",
      "SPXW-specific">>

Rules == {CodeOrder[i] : i \in DOMAIN CodeOrder}
TableRuleFails(table_rule, o, t) ==
    \E rule \in Rules : RuleOfTable(rule) = table_rule /\ RuleFails(rule, o, t)

Least(S) == CHOOSE i \in S : \A j \in S : i <= j

\* the first rule of the code's order, and of the table's order, that the
\* request breaks ("none" if it breaks none)
FirstInCodeOrder(o, t) ==
    LET failing == {i \in DOMAIN CodeOrder : RuleFails(CodeOrder[i], o, t)}
    IN IF failing = {} THEN "none" ELSE CodeOrder[Least(failing)]
FirstInStatedOrder(o, t) ==
    LET failing == {i \in DOMAIN StatedOrder : TableRuleFails(StatedOrder[i], o, t)}
    IN IF failing = {} THEN "none" ELSE StatedOrder[Least(failing)]

ValidationFailed(result) ==
    Failed(result) /\ result.cause.kind = "OrderValidationError"

\* C29, as stated: the rules are applied in the order of the table (quantity
\* range before price presence, price range before expiry) and the error
\* names the first failing rule of that order.  Requests that break a rule
\* the table does not have are left out.
C29_Original ==
    (last.op = "process_order" /\ ~TableRuleFails("unlisted", last.request, now)) =>
        LET first == FirstInStatedOrder(last.request, now)
        IN first # "none" =>
               /\ ValidationFailed(last.result)
               /\ RuleOfTable(last.result.cause.reason) = first

\* C29, amended: the rules are applied in the order presence (quantity >= 1
\* included), order_id, symbol, account and client_order_id format, the
\* enumerations, price and stop_price presence, expiry, expire_time, quantity
\* range, price, stop_price and strike_price range, min_quantity, max_show,
\* SPXW-specific; a request is rejected exactly if it breaks one of them, and
\* the error names the first one broken in that order.
C29_RuleOrder ==
    last.op = "process_order" =>
        LET first == FirstInCodeOrder(last.request, now)
        IN IF first = "none" THEN ~ValidationFailed(last.result)
           ELSE /\ ValidationFailed(last.result)
                /\ last.result.cause.reason = first

\* a LIMIT request with a quantity above max_quantity and no price was
\* rejected for its missing price
C29_Witness ==
    /\ last.op = "process_order"
    /\ Upper(last.request.order_type) = "LIMIT"
    /\ last.request.quantity > max_quantity
    /\ last.request.price = None
    /\ ValidationFailed(last.result)
    /\ last.result.cause.reason = "price required"

LacksOptionField(o) ==
    \/ ~TruthyNum(o.strike_price)
    \/ ~TruthyDate(o.expiry_date)
    \/ ~TruthyStr(o.option_type)

PriceErrors ==
    {"price required", "stop_price required", "price for order type",
     "stop_price for order type"}

C32_Boundary ==
    /\ last.op = "process_order"
    /\ last.request.quantity = max_quantity
    /\ ~Failed(last.result)

\* the three checks of the parsing rule, measured on the message itself: the
\* text before the trailer "10=ccc|" starts with "8=FIX.4.4|9=n|", n is the
\* number of characters that follow up to the trailer, and ccc is the sum of
\* the text's characters mod 256
TrailerLength == 7
TextOf(message) == SubSeq(message, 1, Len(message) - TrailerLength)
TrailerOf(message) == SubSeq(message, Len(message) - TrailerLength + 1, Len(message))
BeginStringOK(message) == Split(message, SOH)[1] = Field(8, BeginString44)
BodyLengthOK(message) ==
    LET parts == Split(message, SOH)
        declared == SubSeq(parts[2], 3, Len(parts[2]))
    IN /\ SubSeq(parts[2], 1, 2) = Field(9, <<>>)
       /\ IsDigits(declared)
       /\ IntOf(declared) = Len(TextOf(message)) - (Len(parts[1]) + Len(parts[2]) + 2)
CheckSumOK(message) ==
    TrailerOf(message) = Field(10, Format03d(SumOrd(TextOf(message)) % 256)) \o <<SOH>>

\* C33: parsing rejects a message whose BeginString is not FIX.4.4, whose
\* BodyLength disagrees with the measured body length, or whose checksum is
\* not the sum of the preceding characters mod 256; only a message passing
\* all three checks yields a field record.
C33_RejectsMalformed ==
    last.op = "parse_fix_message" =>
        (~Raised(last.result) =>
            /\ BeginStringOK(last.message)
            /\ BodyLengthOK(last.message)
            /\ CheckSumOK(last.message))

OptionTags == {"SecurityType", "PutOrCall", "StrikePrice", "MaturityDate"}

\* C34: a NewOrderSingle carries SecurityType=OPT and the option fields
\* (PutOrCall, StrikePrice, MaturityDate) only for an option order: the order
\* of a non-option symbol has no instrument data, and the message sent for
\* it carries none of these tags.
C34_OptOnlyForOptions ==
    \A i \in DOMAIN sent :
        LET fields == sent[i].fields
            order == gw.pending_orders[fields["ClOrdID"]]
        IN fields["Symbol"] # "SPXW" =>
               /\ order.security_id = None /\ order.option_type = None
               /\ OptionTags \cap DOMAIN fields = {}

\* the frame's request names no account
NoAccount(frame) ==
    /\ frame.json = "object"
    /\ ("account" \in DOMAIN frame.members) =>
           frame.members["account"] \in {None, Some("")}

\* C35: when the request has no account, the ProcessedOrder's account is not
\* filled with a configured default and the NewOrderSingle sent for it
\* carries no Account tag.
C35_AccountUnset ==
    (/\ last.op = "_process_message"
     /\ ~Raised(last.error)
     /\ NoAccount(last.message)) =>
        LET fields == sent[Len(sent)].fields
            order == gw.pending_orders[fields["ClOrdID"]]
        IN /\ order.account \notin {default_currency, default_exchange}
           /\ "Account" \notin DOMAIN fields

\* C36: the NewOrderSingle that send_order hands to the session carries the
\* same set of tags as FixMessageProcessor.create_new_order_single produces
\* for the order, SecurityID/Source (48/22) when derived and OrderCapacity
\* (528) included.
C36_CodecTags ==
    (last.op = "_process_message" /\ ~Raised(last.error)) =>
        LET fix_message == sent[Len(sent)]
            order == gw.pending_orders[fix_message.fields["ClOrdID"]]
            codec == to_fix_fields(create_new_order_single(order, now))
        IN /\ TagsOf(fix_message) = DOMAIN codec
           /\ order.order_capacity # None => 528 \in TagsOf(fix_message)
           /\ order.security_id # None => {48, 22} \subseteq TagsOf(fix_message)

-----------------------------------------------------------------------------
(* The listener over the date line: frames are processed while the clock   *)
(* advances, so that check_order's daily reset happens between orders.     *)

NextRiskDay ==
    \/ AdvanceClock
    \/ Arrive
    \/ ProcessMessage
    \/ OnCreate
    \/ OnLogon
    \/ OnLogout

SpecRiskDay == InitListener /\ [][NextRiskDay]_vars

\* the orders of a symbol that check_order let pass since the last daily reset
AcceptedToday(symbol) ==
    SelectSeq(accepted, LAMBDA a : a.symbol = symbol /\ a.day = risk.last_reset_date)

RECURSIVE SumOfQuantities(_)
SumOfQuantities(orders) ==
    IF orders = <<>> THEN 0 ELSE Head(orders).quantity + SumOfQuantities(Tail(orders))

\* C38: with risk enabled, daily_volumes[symbol] is the sum of the quantities
\* and daily_orders[symbol] the number of the orders check_order accepted for
\* the symbol since the last daily reset, whether or not the gateway's
\* send_order failed for them afterwards.
C38_NeverRolledBack ==
    risk.enabled =>
        \A symbol \in Symbols :
            /\ Get(risk.daily_volumes, symbol, 0) = SumOfQuantities(AcceptedToday(symbol))
            /\ Get(risk.daily_orders, symbol, 0) = Len(AcceptedToday(symbol))

\* an order passed check_order, send_order failed for it, and the order is
\* counted
C38_Witness ==
    /\ risk.enabled
    /\ last.op = "_process_message"
    /\ Raised(last.error)
    /\ last.error.kind = "OrderProcessingError"
    /\ last.error.cause.kind = "FixConnectionError"
    /\ accepted # <<>>
    /\ accepted[Len(accepted)].day = risk.last_reset_date
    /\ Get(risk.daily_volumes, accepted[Len(accepted)].symbol, 0) > 0
    /\ sent = <<>>

\* an order accepted after the date line: the counters were reset before it
C38_AfterReset ==
    /\ risk.enabled
    /\ Len(accepted) = 2
    /\ accepted[1].day < accepted[2].day
    /\ accepted[1].symbol = accepted[2].symbol
    /\ Get(risk.daily_orders, accepted[2].symbol, 0) = 1

\* each entry of pending_orders is stored under its own client order id
KeyedByOwnId(pending_orders) ==
    \A k \in DOMAIN pending_orders : pending_orders[k].client_order_id = k

\* the keys whose entry a step has written
Written(before, after) ==
    {k \in DOMAIN after : k \notin DOMAIN before \/ after[k] # before[k]}

\* C39: every entry of pending_orders is stored under its own client order
\* id, and a step that changes the map writes one entry, under the written
\* order's client order id, and removes none: an order whose id is already a
\* key takes the place of the earlier entry and the number of entries stays.
C39_OnePerClientOrderId ==
    /\ [](KeyedByOwnId(gw.pending_orders))
    /\ [][gw'.pending_orders # gw.pending_orders =>
            /\ DOMAIN gw.pending_orders \subseteq DOMAIN gw'.pending_orders
            /\ Cardinality(Written(gw.pending_orders, gw'.pending_orders)) = 1
            /\ \A k \in Written(gw.pending_orders, gw'.pending_orders) :
                 /\ gw'.pending_orders[k].client_order_id = k
                 /\ k \in DOMAIN gw.pending_orders =>
                        DOMAIN gw'.pending_orders = DOMAIN gw.pending_orders]_vars

\* two different orders with one client order id were sent, and the map
\* holds the later one only
C39_Witness ==
    /\ Len(sent) = 2
    /\ sent[1].fields.ClOrdID = sent[2].fields.ClOrdID
    /\ sent[1].fields.OrderQty # sent[2].fields.OrderQty
    /\ DOMAIN gw.pending_orders = {sent[2].fields.ClOrdID}
    /\ gw.pending_orders[sent[2].fields.ClOrdID].quantity = sent[2].fields.OrderQty

-----------------------------------------------------------------------------
(* The listener's start() and stop().  start() binds the socket, sets      *)
(* running and enters _message_loop; the coroutine is suspended only in    *)
(* its awaits (the receive, _process_message's end, the sleep after an     *)
(* error), and stop() runs while it is suspended.                          *)

RecvOutcomes == {"ok", "ZMQError"}

\* the positions of the start() coroutine inside _message_loop
LoopPositions == {"while", "received", "again", "sleeping"}
\* the positions at which the coroutine is suspended or has ended
Suspended == {"idle", "received", "again", "sleeping", "returned", "failed"}

\* start() up to the loop: a failing bind is raised as ZMQError
start_listener(l, sv, bound) ==
    IF bound
    THEN [l |-> [l EXCEPT !.running = TRUE, !.socket = "bound"],
          server |-> [sv EXCEPT !.pc = "while"]]
    ELSE [l |-> [l EXCEPT !.socket = "unbound"],
          server |-> [sv EXCEPT !.pc = "failed",
                                !.result = Raise("ZMQError", "Failed to start ZMQ listener")]]

\* stop(): running is cleared and the socket closed
stop_listener(l) ==
    [l EXCEPT !.running = FALSE, !.socket = IF @ = "None" THEN @ ELSE "closed"]

_message_loop_WhileTrue(l, sv, frames, outcome) ==
    IF l.socket # "bound" \/ outcome = "ZMQError"
    THEN [server |-> [sv EXCEPT !.pc = "sleeping"], inbox |-> frames]
    ELSE IF frames = <<>>
    THEN [server |-> [sv EXCEPT !.pc = "again"], inbox |-> frames]
    ELSE [server |-> [sv EXCEPT !.pc = "received",
                                !.message = Some(recv_string(frames).message)],
          inbox |-> recv_string(frames).rest]

\* the head of one iteration of _message_loop: the test of self.running and
\* the receive, which ends with a frame, with zmq.Again on an empty socket,
\* or with another error (on a closed socket always)
_message_loop(l, sv, frames, outcome) ==
    IF ~l.running
    THEN [server |-> [sv EXCEPT !.pc = "returned"], inbox |-> frames]
    ELSE IF l.socket # "bound" \/ outcome = "ZMQError"
    THEN [server |-> [sv EXCEPT !.pc = "sleeping"], inbox |-> frames]
    ELSE IF frames = <<>>
    THEN [server |-> [sv EXCEPT !.pc = "again"], inbox |-> frames]
    ELSE [server |-> [sv EXCEPT !.pc = "received",
                                !.message = Some(recv_string(frames).message)],
          inbox |-> recv_string(frames).rest]

InitStop ==
    /\ now = StartTime
    /\ advances = 0
    /\ risk = RiskInit(TRUE, now)
    /\ proc = ProcInit
    /\ last = NoOp
    /\ NoTasks
    /\ NoGateway
    /\ NoOrder
    /\ NoService

StartListener ==
    /\ server.pc = "idle"
    /\ \E bound \in BOOLEAN :
         LET s == start_listener(listener, server, bound)
         IN /\ listener' = s.l
            /\ server' = s.server
    /\ last' = [op |-> "start"]
    /\ UNCHANGED <<now, advances, risk, proc, loopVars, gwVars, orderVars,
                   inbox, dispatched, accepted, starter>>

StopListener ==
    /\ server.pc \in Suspended
    /\ last.op # "stop"
    /\ listener' = stop_listener(listener)
    /\ last' = [op |-> "stop"]
    /\ UNCHANGED <<now, advances, risk, proc, loopVars, gwVars, orderVars,
                   inbox, dispatched, accepted, starter, server>>

\* a frame arrives on the bound socket; the frame the coroutine holds has
\* arrived already
ArriveAtSocket ==
    /\ listener.socket = "bound"
    /\ Arrivals + (IF server.message = None THEN 0 ELSE 1) < MaxFrames
    /\ \E frame \in ListenerFrames :
         inbox' = Append(inbox, [arrival |-> Arrivals
                                               + (IF server.message = None THEN 0 ELSE 1)
                                               + 1,
                                 frame |-> frame])
    /\ last' = [op |-> "arrive"]
    /\ UNCHANGED <<now, advances, risk, proc, loopVars, gwVars, orderVars,
                   listener, dispatched, accepted, starter, server>>

LoopHead ==
    /\ server.pc = "while"
    /\ \E outcome \in RecvOutcomes :
         LET h == _message_loop(listener, server, inbox, outcome)
         IN /\ server' = h.server
            /\ inbox' = h.inbox
    /\ last' = [op |-> "_message_loop"]
    /\ UNCHANGED <<now, advances, risk, proc, loopVars, gwVars, orderVars,
                   listener, dispatched, accepted, starter>>

\* await self._process_message(message) on the frame received
ProcessReceived ==
    /\ server.pc = "received"
    /\ \E a \in {AcceptedOf(proc, risk, Val(server.message).frame, now)} :
         accepted' = accepted \o a
    /\ \E outcome \in SendOutcomes :
         \E m \in {_process_message(listener, proc, risk, gw, sent,
                                   Val(server.message).frame, now, outcome)} :
            Processed([message |-> Val(server.message), rest |-> inbox], m)
    /\ server' = [server EXCEPT !.pc = "while", !.message = None]
    /\ UNCHANGED <<now, advances, loopVars, created, orderVars, starter>>

\* `continue` after zmq.Again, or the end of the sleep after an error
Continue ==
    /\ server.pc \in {"again", "sleeping"}
    /\ server' = [server EXCEPT !.pc = "while"]
    /\ last' = [op |-> "continue"]
    /\ UNCHANGED <<now, advances, risk, proc, loopVars, gwVars, orderVars,
                   listener, inbox, dispatched, accepted, starter>>

NextStop ==
    \/ StartListener
    \/ StopListener
    \/ ArriveAtSocket
    \/ LoopHead
    \/ ProcessReceived
    \/ Continue
    \/ OnCreate
    \/ OnLogon

SpecStop == InitStop /\ [][NextStop]_vars

\* the step that ends `await self._process_message(message)`: the only step
\* of SpecStop that takes the coroutine from "received" is ProcessReceived,
\* which is enabled whenever the coroutine is there
EndOfProcessing ==
    /\ server.pc = "received"
    /\ server' = [server EXCEPT !.pc = "while", !.message = None]

\* the event loop runs a coroutine that is ready
FairSpecStop ==
    /\ SpecStop
    /\ WF_vars(LoopHead)
    /\ WF_vars(Continue)
    /\ WF_server(EndOfProcessing)

\* stop() has cleared running while the loop was on
Stopping == ~listener.running /\ server.pc \in LoopPositions

\* C40: once stop() has cleared running the message loop ends and start()
\* returns; until then it receives no further frame and processes only a
\* frame it had received before.
C40_LoopTerminates ==
    /\ Stopping ~> (server.pc = "returned" /\ server.result = Returned)
    /\ [][Stopping =>
            /\ inbox' = inbox
            /\ server'.pc = "received" => server' = server
            /\ listener'.stats.orders_received # listener.stats.orders_received
                  => server.pc = "received"]_vars

\* stop() has cleared running with a frame still on the socket: one frame
\* was processed, the other was never received, and start() has returned
C40_Witness ==
    /\ server.pc = "returned"
    /\ ~listener.running
    /\ listener.stats.orders_received = 1
    /\ inbox # <<>>

====
